---- MODULE Spec2Model ----
(***************************************************************************)
(* Match Transition Manager of the dating backend (MatchService):          *)
(* likeProfile, passProfile and superLike over the relational store.       *)
(* Every await on the store is one atomic step of the request that issues  *)
(* it; requests of different clients interleave between awaits.            *)
(* The userActivity log rows the handlers append are write-only here and   *)
(* are left out of the state.                                              *)
(***************************************************************************)
EXTENDS Integers, FiniteSets, Sequences, TLC

\* ---- bounds of the model ------------------------------------------------
NumUsers == 2
NumRequests == 2
NumTasks == 2
MaxTargets == 2
NumMembers == 3
MaxNow == 7

Users == 1..NumUsers
Requests == 1..NumRequests
Tasks == 1..NumTasks
Pairs == Users \X Users

VARIABLES
  likes,          \* Like table: ordered pair -> number of rows
  passes,         \* Pass table: ordered pair -> number of rows
  superLikes,     \* SuperLike table: ordered pair -> number of rows
  blocks,         \* Block table: set of ordered pairs (read-only here)
  matches,        \* Match rows [id, user1Id, user2Id]
  conversations,  \* Conversation rows [id, matchId, user1Id, user2Id]
  pc,             \* per request: the await it is suspended at
  call,           \* per request: [op, senderId, receiverId]
  mutualLike,     \* per request: local of likeProfile (line 237)
  matchRow,       \* per request: id of the match row it created (0: none)
  result,         \* per request: what the handler returned or threw
  hist,           \* per request: observations of the store (history)
  directory,           \* Profile table: per user, the columns discovery reads
  profiles,            \* Profile table: per user, the questionnaire columns
  personalityAnswers,  \* PersonalityAnswer table: per user, the stored answers
  compatibilityScores, \* CompatibilityScore table (the cache): set of rows
  now,                 \* the clock new Date() reads, in days
  task                 \* per personality call: position, arguments, locals

vars == <<likes, passes, superLikes, blocks, matches, conversations,
          pc, call, mutualLike, matchRow, result, hist,
          directory, profiles, personalityAnswers, compatibilityScores, now, task>>

store == <<likes, passes, superLikes, blocks, matches, conversations>>

scoringStore == <<profiles, personalityAnswers, compatibilityScores>>

scoring == <<scoringStore, now, task>>

\* ---- results -------------------------------------------------------------
NoResult == [status |-> 0, message |-> "", isMatch |-> FALSE,
             matchId |-> 0, conversationId |-> 0]

\* new AppError(message, statusCode), thrown out of the handler
AppError(message, statusCode) ==
  [status |-> statusCode, message |-> message, isMatch |-> FALSE,
   matchId |-> 0, conversationId |-> 0]

\* { success: true, isMatch, match: matchData, message }
LikeSuccess(isMatch, mid, cid) ==
  [status |-> 200,
   message |-> IF isMatch THEN "It's a match!" ELSE "Like sent successfully",
   isMatch |-> isMatch, matchId |-> mid, conversationId |-> cid]

PassSuccess(message) ==
  [status |-> 200, message |-> message, isMatch |-> FALSE,
   matchId |-> 0, conversationId |-> 0]

SuperLikeSuccess ==
  [status |-> 200, message |-> "Super like sent successfully",
   isMatch |-> FALSE, matchId |-> 0, conversationId |-> 0]

\* what a request observed of the store and did to it (history, not program state)
NoHist == [likeAtStart |-> FALSE, passAtStart |-> FALSE,
           recip |-> "unchecked", superSeen |-> "unchecked",
           wroteLike |-> FALSE, wroteSuper |-> FALSE, conflict |-> FALSE]

NoCall == [op |-> "none", senderId |-> 1, receiverId |-> 1]

\* ---- store queries --------------------------------------------------------
\* prisma.<edge>.findUnique({ where: { senderId_receiverId } }) as a boolean
EdgeFindUnique(table, senderId, receiverId) == table[<<senderId, receiverId>>] > 0

\* unique (senderId, receiverId): create throws P2002 when the key is taken
EdgeKeyTaken(table, senderId, receiverId) == table[<<senderId, receiverId>>] > 0

EdgeInsert(table, senderId, receiverId) ==
  [table EXCEPT ![<<senderId, receiverId>>] = @ + 1]

\* only the sender's own block is looked up
checkIfBlocked_OneWay(user1Id, user2Id) == <<user1Id, user2Id>> \in blocks

\* checkIfBlocked: a block row in either direction
checkIfBlocked(user1Id, user2Id) ==
  \E b \in blocks : \/ b = <<user1Id, user2Id>>
                    \/ b = <<user2Id, user1Id>>

\* the pair left in call order
SortedPair_Unsorted(senderId, receiverId) == <<senderId, receiverId>>

\* const [user1Id, user2Id] = [senderId, receiverId].sort()
SortedPair(senderId, receiverId) ==
  IF senderId <= receiverId THEN <<senderId, receiverId>>
                            ELSE <<receiverId, senderId>>

\* uniqueness of Match on (user1Id, user2Id)
MatchKeyTaken(user1Id, user2Id) ==
  \E m \in matches : m.user1Id = user1Id /\ m.user2Id = user2Id

NewId(rows) == Cardinality(rows) + 1

\* the handlers' catch blocks: an error that is no AppError becomes a 500
FailureMessage(op) ==
  CASE op = "like" -> "Failed to like profile"
    [] op = "pass" -> "Failed to pass profile"
    [] OTHER       -> "Failed to send super like"

Rethrown(op) == AppError(FailureMessage(op), 500)

Quiet(p) == pc[p] \in {"idle", "done"}

Finish(p, r) ==
  /\ pc' = [pc EXCEPT ![p] = "done"]
  /\ result' = [result EXCEPT ![p] = r]

\* ---- personality: traits, questions and the two calculators ----------------
\* Trait values and weights are counted in hundredths (0.85 is 85).
CoreTraits == {"extroversion", "openness", "conscientiousness", "agreeableness",
               "emotional_stability", "growth_mindset", "collectivism",
               "spiritual_inclination"}

LifestyleTraits == {"veganism_support", "environmental_consciousness",
                    "health_focus", "social_justice"}

DealBreakerTraits == {"veganism_support", "environmental_consciousness",
                      "social_justice"}

Traits == CoreTraits \cup LifestyleTraits

\* a Decimal column holding NULL
Null == -1

NullTraits == [t \in Traits |-> Null]

\* Number(x): Number(null) is 0
NumberOf(v) == IF v = Null THEN 0 ELSE v

\* Number(x) || 0.5: a stored 0 is falsy and becomes 0.5
OrHalf(v) == IF NumberOf(v) = 0 THEN 50 ELSE NumberOf(v)

Abs(x) == IF x < 0 THEN -x ELSE x
Max(x, y) == IF x >= y THEN x ELSE y
Min(x, y) == IF x <= y THEN x ELSE y

\* Math.round of the non-negative quotient n / d
RoundDiv(n, d) == (2 * n + d) \div (2 * d)

\* String.fromCharCode(65 + optionIndex)
OptionKey(optionIndex) ==
  IF optionIndex \in 0..5 THEN <<"A", "B", "C", "D", "E", "F">>[optionIndex + 1]
                          ELSE "?"

\* the seeded question bank, scoringWeights of questions 1, 2 and 3
QuestionMap ==
  (1 :> [A |-> [openness |-> 80, extroversion |-> 60, spiritual_inclination |-> 30],
         B |-> [agreeableness |-> 90, collectivism |-> 80, social_justice |-> 90],
         C |-> [extroversion |-> 70, conscientiousness |-> 80, agreeableness |-> 20],
         D |-> [spiritual_inclination |-> 90, openness |-> 80, growth_mindset |-> 70],
         E |-> [agreeableness |-> 80, collectivism |-> 70, extroversion |-> 50],
         F |-> [openness |-> 70, growth_mindset |-> 60, spiritual_inclination |-> 60]])
  @@
  (2 :> [A |-> [growth_mindset |-> 90, openness |-> 70, emotional_stability |-> 60],
         B |-> [conscientiousness |-> 70, emotional_stability |-> 80],
         C |-> [openness |-> 80, growth_mindset |-> 60, conscientiousness |-> 30],
         D |-> [emotional_stability |-> 90, spiritual_inclination |-> 60],
         E |-> [growth_mindset |-> 80, emotional_stability |-> 70, conscientiousness |-> 60],
         F |-> [agreeableness |-> 70, spiritual_inclination |-> 80, growth_mindset |-> 60]])
  @@
  (3 :> [A |-> [openness |-> 70, spiritual_inclination |-> 60, emotional_stability |-> 40],
         B |-> [conscientiousness |-> 80, emotional_stability |-> 70, openness |-> 40],
         C |-> [agreeableness |-> 90, collectivism |-> 90, social_justice |-> 80],
         D |-> [spiritual_inclination |-> 80, conscientiousness |-> 70, growth_mindset |-> 60],
         E |-> [conscientiousness |-> 60, emotional_stability |-> 60, openness |-> 30],
         F |-> [agreeableness |-> 70, collectivism |-> 60, conscientiousness |-> 50]])

Answer(questionId, optionIndex) ==
  [questionId |-> questionId, optionIndex |-> optionIndex]

\* the weights an answer contributes to a trait (none, or one weight)
Contribution(answer, trait) ==
  IF answer.questionId \notin DOMAIN QuestionMap THEN <<>>
  ELSE LET weights == QuestionMap[answer.questionId]
           optionKey == OptionKey(answer.optionIndex) IN
         IF optionKey \notin DOMAIN weights THEN <<>>
         ELSE IF trait \notin DOMAIN weights[optionKey] THEN <<>>
         ELSE <<weights[optionKey][trait]>>

RECURSIVE TraitWeights(_, _)
TraitWeights(answers, trait) ==
  IF answers = <<>> THEN <<>>
  ELSE Contribution(Head(answers), trait) \o TraitWeights(Tail(answers), trait)

RECURSIVE SumSeq(_)
SumSeq(s) == IF s = <<>> THEN 0 ELSE Head(s) + SumSeq(Tail(s))

\* the mean is cut to 2 decimals instead of rounded
calculatePersonalityScores_Floored(answers) ==
  [t \in Traits |->
     LET w == TraitWeights(answers, t) IN
       IF Len(w) > 0 THEN SumSeq(w) \div Len(w) ELSE 50]

\* calculatePersonalityScores: per trait the mean of the contributed weights,
\* Math.round(mean * 100) / 100, or 0.5 when nothing contributed
calculatePersonalityScores(answers) ==
  [t \in Traits |->
     LET w == TraitWeights(answers, t) IN
       IF Len(w) > 0 THEN RoundDiv(SumSeq(w), Len(w)) ELSE 50]

\* |difference - 0.3| < 0.1, on hundredths
NearThreeTenths(difference) == Abs(difference - 30) < 10

\* the difference of one trait as the similarity loop uses it
TraitDifference(trait, user1, user2) ==
  LET difference == Abs(OrHalf(user1[trait]) - OrHalf(user2[trait])) IN
    IF trait = "extroversion" /\ NearThreeTenths(difference)
      THEN Max(0, difference - 10)
      ELSE difference

\* traitCompatibility = Math.max(0, 1 - difference)
TraitCompatibility(trait, user1, user2) ==
  Max(0, 100 - TraitDifference(trait, user1, user2))

RECURSIVE SumOver(_, _, _)
SumOver(traits, user1, user2) ==
  IF traits = {} THEN 0
  ELSE LET t == CHOOSE x \in traits : TRUE IN
         TraitCompatibility(t, user1, user2) + SumOver(traits \ {t}, user1, user2)

\* only the first user's value is compared with 0.8
CriticalMismatch_FirstOnly(user1, user2) ==
  \E t \in DealBreakerTraits :
    /\ Abs(OrHalf(user1[t]) - OrHalf(user2[t])) > 60
    /\ OrHalf(user1[t]) > 80

\* difference > 0.6 && (val1 > 0.8 || val2 > 0.8) on a deal-breaker trait
CriticalMismatch(user1, user2) ==
  \E t \in DealBreakerTraits :
    /\ Abs(OrHalf(user1[t]) - OrHalf(user2[t])) > 60
    /\ OrHalf(user1[t]) > 80 \/ OrHalf(user2[t]) > 80

\* the two bonuses read the stored columns through Number() alone
ExtroversionBonus(user1, user2) ==
  NearThreeTenths(Abs(NumberOf(user1["extroversion"]) - NumberOf(user2["extroversion"])))

GrowthBonus(user1, user2) ==
  NumberOf(user1["growth_mindset"]) > 70 /\ NumberOf(user2["growth_mindset"]) > 70

\* calculateCompatibilityScores. With sc and sl the sums of the core and of
\* the lifestyle similarities (hundredths), corePersonalityScore is
\* (sc/100/8)*60 = 3*sc/40, lifestyleCompatibilityScore is (sl/100/4)*40 =
\* sl/10, and finalScore is counted in eightieths of a point.
calculateCompatibilityScores(user1, user2) ==
  LET sc == SumOver(CoreTraits, user1, user2)
      sl == SumOver(LifestyleTraits, user1, user2)
      base == IF CriticalMismatch(user1, user2) THEN 3 * sc + 4 * sl
                                                ELSE 2 * (3 * sc + 4 * sl)
      bonus == (IF ExtroversionBonus(user1, user2) THEN 800 ELSE 0)
               + (IF GrowthBonus(user1, user2) THEN 800 ELSE 0)
      finalScore == base + bonus IN
    [userId |-> 0,
     overallScore |-> RoundDiv(Min(8000, Max(0, finalScore)), 80),
     personalityScore |-> RoundDiv(3 * sc, 40),
     lifestyleScore |-> RoundDiv(sl, 10),
     traitScores |-> [t \in Traits |-> TraitCompatibility(t, user1, user2)]]

\* ---- personality: rows, locals and results -----------------------------------
NoScore == [userId |-> 0, overallScore |-> 0, personalityScore |-> 0,
            lifestyleScore |-> 0, traitScores |-> [t \in Traits |-> 0]]

\* what a personality call returned or threw
NoOutcome == [status |-> 0, message |-> "", score |-> NoScore,
              traits |-> NullTraits, items |-> <<>>, profiles |-> <<>>]

Thrown(message, statusCode) ==
  [NoOutcome EXCEPT !.status = statusCode, !.message = message]

\* { success: true, compatibilityScore }
CompatibilitySuccess(score) == [NoOutcome EXCEPT !.status = 200, !.score = score]

\* a profile whose questionnaire was never submitted, or was reset
FreshProfile == [personality_quiz_completed |-> FALSE, traits |-> NullTraits]

\* position, arguments and locals of one personality call; lookup, wrote
\* and cleared record what the call saw in the cache, whether it wrote a
\* row and how many rows it deleted (history)
NoTask == [pc |-> "idle", op |-> "none", user1Id |-> 1, user2Id |-> 1,
           answers |-> <<>>, score |-> NoScore, outcome |-> NoOutcome,
           lookup |-> "unchecked", wrote |-> FALSE, cleared |-> 0,
           targets |-> <<>>, subs |-> <<>>,
           limit |-> 0, filters |-> [minAge |-> Null, maxAge |-> Null,
                                     maxDistance |-> Null, excludeUserIds |-> {}],
           excludedUserIds |-> {}, potentialMatches |-> <<>>]

\* expiresAt.setDate(expiresAt.getDate() + 7)
CacheTtlDays == 7

\* const [orderedUser1, orderedUser2] = [user1Id, user2Id].sort()  (lookup)
LookupKey(user1Id, user2Id) ==
  IF user1Id <= user2Id THEN <<user1Id, user2Id>> ELSE <<user2Id, user1Id>>

\* the row is stored under the pair in call order
UpsertKey_Unsorted(user1Id, user2Id) == <<user1Id, user2Id>>

\* const [orderedUser1, orderedUser2] = [user1Id, user2Id].sort()  (upsert)
UpsertKey(user1Id, user2Id) ==
  IF user1Id <= user2Id THEN <<user1Id, user2Id>> ELSE <<user2Id, user1Id>>

\* prisma.compatibilityScore.findUnique({ where: { user1Id_user2Id } })
CacheRows(key) ==
  {r \in compatibilityScores : r.user1Id = key[1] /\ r.user2Id = key[2]}

\* an entry is served up to and including the instant it expires
Unexpired_Inclusive(row, at) == row.expiresAt >= at

\* cached.expiresAt > new Date()
Unexpired(row, at) == row.expiresAt > at

\* getCachedCompatibilityScore: the row of the ordered pair if it has not
\* expired, as a set of at most one score
getCachedCompatibilityScore(user1Id, user2Id) ==
  LET key == LookupKey(user1Id, user2Id) IN
    {[r.score EXCEPT !.userId = IF user1Id = key[1] THEN user2Id ELSE user1Id] :
       r \in {c \in CacheRows(key) : Unexpired(c, now)}}

\* cacheCompatibilityScore: upsert on the unique (user1Id, user2Id)
cacheCompatibilityScore(user1Id, user2Id, score) ==
  LET key == UpsertKey(user1Id, user2Id) IN
    (compatibilityScores \ CacheRows(key)) \cup
      {[user1Id |-> key[1], user2Id |-> key[2],
        score |-> [score EXCEPT !.userId = 0],
        calculatedAt |-> now, expiresAt |-> now + CacheTtlDays]}

\* only the rows that hold the user in the first column are deleted
clearCompatibilityCache_FirstColumn(userId) ==
  {r \in compatibilityScores : r.user1Id # userId}

\* clearCompatibilityCache: deleteMany where user1Id = userId OR user2Id = userId
clearCompatibilityCache(userId) ==
  {r \in compatibilityScores : r.user1Id # userId /\ r.user2Id # userId}

\* ---- discovery: the profile columns and the call's arguments ---------------------
\* Dates are counted in thirds of a year: a date is a year and the place of
\* its month and day against today's (1 earlier, 2 the same, 3 later).
\* The calendar date does not change during a run.
CurrentYear == 2025

DateOf(year, day) == 3 * year + (day - 1)

\* new Date(now.getFullYear() - years, now.getMonth(), now.getDate())
YearsAgo(years) == DateOf(CurrentYear - years, 2)

getFullYear(date) == date \div 3

\* undefined or 0 is falsy
Truthy(x) == x # Null /\ x # 0

\* the preferences row of a profile
Preferences(genderPreference, minAge, maxAge, maxDistance) ==
  [genderPreference |-> genderPreference, minAge |-> minAge,
   maxAge |-> maxAge, maxDistance |-> maxDistance]

\* a profile without a preferences row
NoPreferences == Preferences("none", Null, Null, Null)

\* DiscoveryFilters: a field the caller left out is Null
Filters(minAge, maxAge, maxDistance, excludeUserIds) ==
  [minAge |-> minAge, maxAge |-> maxAge, maxDistance |-> maxDistance,
   excludeUserIds |-> excludeUserIds]

NoFilters == Filters(Null, Null, Null, {})

\* the discovery columns of the profile of user u in the initial state:
\* latitude in tenths of a degree, everybody on one meridian
StartListing(u) ==
  [isDiscoverable |-> TRUE,
   gender |-> IF u % 2 = 1 THEN "FEMALE" ELSE "MALE",
   dateOfBirth |-> DateOf(CurrentYear - 24 - 3 * u, 2),
   latitude |-> 280 + 5 * u, longitude |-> 77,
   interests |-> IF u % 2 = 1 THEN {"music"} ELSE {"music", "hiking"},
   education |-> IF u % 3 = 0 THEN "" ELSE "Engineering",
   profileCompleteness |-> 80,
   preferences |-> Preferences("ALL", 18, 100, 500)]

Init ==
  /\ likes = [e \in Pairs |-> 0]
  /\ passes = [e \in Pairs |-> 0]
  /\ superLikes = [e \in Pairs |-> 0]
  /\ blocks \in {{}, {<<1, 2>>}}
  /\ matches = {}
  /\ conversations = {}
  /\ pc = [p \in Requests |-> "idle"]
  /\ call = [p \in Requests |-> NoCall]
  /\ mutualLike = [p \in Requests |-> FALSE]
  /\ matchRow = [p \in Requests |-> 0]
  /\ result = [p \in Requests |-> NoResult]
  /\ hist = [p \in Requests |-> NoHist]
  /\ directory = [u \in Users |-> StartListing(u)]
  /\ profiles = [u \in Users |-> FreshProfile]
  /\ personalityAnswers = [u \in Users |-> {}]
  /\ compatibilityScores = {}
  /\ now = 0
  /\ task = [t \in Tasks |-> NoTask]

\* Request p arrives at a handler: locals are fresh, the store is untouched.
\* Requests are interchangeable, so they are numbered in order of arrival.
Enter(p, op, senderId, receiverId) ==
  /\ pc[p] = "idle"
  /\ \A q \in Requests : q < p => pc[q] # "idle"
  /\ call' = [call EXCEPT ![p] = [op |-> op, senderId |-> senderId,
                                  receiverId |-> receiverId]]
  /\ UNCHANGED <<mutualLike, matchRow>>
  /\ hist' = [hist EXCEPT ![p] =
                [NoHist EXCEPT !.likeAtStart = likes[<<senderId, receiverId>>] > 0,
                               !.passAtStart = passes[<<senderId, receiverId>>] > 0]]
  /\ UNCHANGED <<store, scoring, directory>>

\* ---- likeProfile (one action per await) ----------------------------------
\* entry and the synchronous self-like test
LikeBegin(p, senderId, receiverId) ==
  /\ Enter(p, "like", senderId, receiverId)
  /\ IF senderId = receiverId
       THEN Finish(p, AppError("Cannot like your own profile", 400))
       ELSE /\ pc' = [pc EXCEPT ![p] = "like_existing"]
            /\ result' = [result EXCEPT ![p] = NoResult]

\* the existing edge is looked up and ignored
LikeExisting_NoCheck(p) ==
  /\ pc[p] = "like_existing"
  /\ pc' = [pc EXCEPT ![p] = "like_blocked"]
  /\ UNCHANGED <<store, call, scoring, directory, mutualLike, matchRow, result, hist>>

\* const existingLike = await prisma.like.findUnique(...); if (existingLike) throw
LikeExisting(p) ==
  /\ pc[p] = "like_existing"
  /\ IF EdgeFindUnique(likes, call[p].senderId, call[p].receiverId)
       THEN Finish(p, AppError("Profile already liked", 400))
       ELSE /\ pc' = [pc EXCEPT ![p] = "like_blocked"]
            /\ UNCHANGED result
  /\ UNCHANGED <<store, call, scoring, directory, mutualLike, matchRow, hist>>

\* const isBlocked = await this.checkIfBlocked(...); if (isBlocked) throw
LikeBlocked(p) ==
  /\ pc[p] = "like_blocked"
  /\ IF checkIfBlocked(call[p].senderId, call[p].receiverId)
       THEN Finish(p, AppError("Cannot like this profile", 400))
       ELSE /\ pc' = [pc EXCEPT ![p] = "like_create"]
            /\ UNCHANGED result
  /\ UNCHANGED <<store, call, scoring, directory, mutualLike, matchRow, hist>>

\* the handler goes on to the reciprocal lookup with its own edge not yet stored
LikeCreate_Unwritten(p) ==
  /\ pc[p] = "like_create"
  /\ IF EdgeKeyTaken(likes, call[p].senderId, call[p].receiverId)
       THEN Finish(p, Rethrown("like"))
       ELSE /\ pc' = [pc EXCEPT ![p] = "like_mutual"]
            /\ UNCHANGED result
  /\ UNCHANGED <<store, hist, call, scoring, directory, mutualLike, matchRow>>

\* await prisma.like.create(...); a key violation is rethrown as a 500
LikeCreate(p) ==
  /\ pc[p] = "like_create"
  /\ IF EdgeKeyTaken(likes, call[p].senderId, call[p].receiverId)
       THEN /\ Finish(p, Rethrown("like"))
            /\ UNCHANGED <<likes, hist>>
       ELSE /\ likes' = EdgeInsert(likes, call[p].senderId, call[p].receiverId)
            /\ hist' = [hist EXCEPT ![p].wroteLike = TRUE]
            /\ pc' = [pc EXCEPT ![p] = "like_mutual"]
            /\ UNCHANGED result
  /\ UNCHANGED <<passes, superLikes, blocks, matches, conversations,
                 call, scoring, directory, mutualLike, matchRow>>

\* the sender's own edge looked up again
MutualLikeLookup_SameDirection(senderId, receiverId) ==
  EdgeFindUnique(likes, senderId, receiverId)

\* the reciprocal edge looked up at line 237: where senderId = receiverId,
\* receiverId = senderId
MutualLikeLookup(senderId, receiverId) ==
  EdgeFindUnique(likes, receiverId, senderId)

\* const mutualLike = await prisma.like.findUnique(...); without a mutual like
\* the handler logs the activity and returns isMatch = false
LikeMutual(p) ==
  /\ pc[p] = "like_mutual"
  /\ LET found == MutualLikeLookup(call[p].senderId, call[p].receiverId) IN
       /\ mutualLike' = [mutualLike EXCEPT ![p] = found]
       /\ hist' = [hist EXCEPT ![p].recip =
                     IF likes[<<call[p].receiverId, call[p].senderId>>] > 0
                       THEN "present" ELSE "absent"]
       /\ IF found
            THEN /\ pc' = [pc EXCEPT ![p] = "like_match"]
                 /\ UNCHANGED result
            ELSE Finish(p, LikeSuccess(FALSE, 0, 0))
  /\ UNCHANGED <<store, call, scoring, directory, matchRow>>

\* const match = await prisma.match.create({ data: { user1Id, user2Id } })
LikeMatchCreate(p) ==
  /\ pc[p] = "like_match"
  /\ LET key == SortedPair(call[p].senderId, call[p].receiverId) IN
       IF MatchKeyTaken(key[1], key[2])
         THEN /\ Finish(p, Rethrown("like"))
              /\ hist' = [hist EXCEPT ![p].conflict = TRUE]
              /\ UNCHANGED <<matches, matchRow>>
         ELSE /\ matches' = matches \cup
                   {[id |-> NewId(matches), user1Id |-> key[1], user2Id |-> key[2]]}
              /\ matchRow' = [matchRow EXCEPT ![p] = NewId(matches)]
              /\ pc' = [pc EXCEPT ![p] = "like_conversation"]
              /\ UNCHANGED <<result, hist>>
  /\ UNCHANGED <<likes, passes, superLikes, blocks, conversations,
                 call, scoring, directory, mutualLike>>

\* const conversation = await prisma.conversation.create(...); then the
\* activity log and the return of isMatch = true with both identifiers
LikeConversationCreate(p) ==
  /\ pc[p] = "like_conversation"
  /\ LET key == SortedPair(call[p].senderId, call[p].receiverId)
         cid == NewId(conversations) IN
       /\ conversations' = conversations \cup
            {[id |-> cid, matchId |-> matchRow[p],
              user1Id |-> key[1], user2Id |-> key[2]]}
       /\ Finish(p, LikeSuccess(TRUE, matchRow[p], cid))
  /\ UNCHANGED <<likes, passes, superLikes, blocks, matches,
                 call, scoring, directory, mutualLike, matchRow, hist>>

\* ---- passProfile ----------------------------------------------------------
PassBegin(p, senderId, receiverId) ==
  /\ Enter(p, "pass", senderId, receiverId)
  /\ IF senderId = receiverId
       THEN Finish(p, AppError("Cannot pass your own profile", 400))
       ELSE /\ pc' = [pc EXCEPT ![p] = "pass_existing"]
            /\ result' = [result EXCEPT ![p] = NoResult]

\* the existing edge is looked up and ignored
PassExisting_NoCheck(p) ==
  /\ pc[p] = "pass_existing"
  /\ pc' = [pc EXCEPT ![p] = "pass_create"]
  /\ UNCHANGED <<store, call, scoring, directory, mutualLike, matchRow, result, hist>>

\* const existingPass = await prisma.pass.findUnique(...); if (existingPass) return
PassExisting(p) ==
  /\ pc[p] = "pass_existing"
  /\ IF EdgeFindUnique(passes, call[p].senderId, call[p].receiverId)
       THEN Finish(p, PassSuccess("Profile already passed"))
       ELSE /\ pc' = [pc EXCEPT ![p] = "pass_create"]
            /\ UNCHANGED result
  /\ UNCHANGED <<store, call, scoring, directory, mutualLike, matchRow, hist>>

\* the pass also deletes the match of the pair
PassCreate_Unmatches(p) ==
  /\ pc[p] = "pass_create"
  /\ passes' = EdgeInsert(passes, call[p].senderId, call[p].receiverId)
  /\ matches' = {m \in matches :
                   {m.user1Id, m.user2Id} # {call[p].senderId, call[p].receiverId}}
  /\ Finish(p, PassSuccess("Profile passed successfully"))
  /\ UNCHANGED <<likes, superLikes, blocks, conversations,
                 call, scoring, directory, mutualLike, matchRow, hist>>

\* await prisma.pass.create(...)
PassCreate(p) ==
  /\ pc[p] = "pass_create"
  /\ IF EdgeKeyTaken(passes, call[p].senderId, call[p].receiverId)
       THEN /\ Finish(p, Rethrown("pass"))
            /\ UNCHANGED passes
       ELSE /\ passes' = EdgeInsert(passes, call[p].senderId, call[p].receiverId)
            /\ Finish(p, PassSuccess("Profile passed successfully"))
  /\ UNCHANGED <<likes, superLikes, blocks, matches, conversations,
                 call, scoring, directory, mutualLike, matchRow, hist>>

\* ---- superLike ------------------------------------------------------------
SuperLikeBegin(p, senderId, receiverId) ==
  /\ Enter(p, "superLike", senderId, receiverId)
  /\ IF senderId = receiverId
       THEN Finish(p, AppError("Cannot super like your own profile", 400))
       ELSE /\ pc' = [pc EXCEPT ![p] = "super_existing"]
            /\ result' = [result EXCEPT ![p] = NoResult]

\* the Like table is looked up in place of the SuperLike table
SuperLikeExisting_ChecksLike(p) ==
  /\ pc[p] = "super_existing"
  /\ IF EdgeFindUnique(likes, call[p].senderId, call[p].receiverId)
       THEN Finish(p, AppError("Profile already super liked", 400))
       ELSE /\ pc' = [pc EXCEPT ![p] = "super_blocked"]
            /\ UNCHANGED result
  /\ hist' = [hist EXCEPT ![p].superSeen =
                IF superLikes[<<call[p].senderId, call[p].receiverId>>] > 0
                  THEN "present" ELSE "absent"]
  /\ UNCHANGED <<store, call, scoring, directory, mutualLike, matchRow>>

\* const existingSuperLike = await prisma.superLike.findUnique(...)
SuperLikeExisting(p) ==
  /\ pc[p] = "super_existing"
  /\ IF EdgeFindUnique(superLikes, call[p].senderId, call[p].receiverId)
       THEN Finish(p, AppError("Profile already super liked", 400))
       ELSE /\ pc' = [pc EXCEPT ![p] = "super_blocked"]
            /\ UNCHANGED result
  /\ hist' = [hist EXCEPT ![p].superSeen =
                IF superLikes[<<call[p].senderId, call[p].receiverId>>] > 0
                  THEN "present" ELSE "absent"]
  /\ UNCHANGED <<store, call, scoring, directory, mutualLike, matchRow>>

SuperLikeBlocked(p) ==
  /\ pc[p] = "super_blocked"
  /\ IF checkIfBlocked(call[p].senderId, call[p].receiverId)
       THEN Finish(p, AppError("Cannot super like this profile", 400))
       ELSE /\ pc' = [pc EXCEPT ![p] = "super_create"]
            /\ UNCHANGED result
  /\ UNCHANGED <<store, call, scoring, directory, mutualLike, matchRow, hist>>

\* await prisma.superLike.create(...)
SuperLikeCreate(p) ==
  /\ pc[p] = "super_create"
  /\ IF EdgeKeyTaken(superLikes, call[p].senderId, call[p].receiverId)
       THEN /\ Finish(p, Rethrown("superLike"))
            /\ UNCHANGED <<superLikes, hist>>
       ELSE /\ superLikes' = EdgeInsert(superLikes, call[p].senderId, call[p].receiverId)
            /\ hist' = [hist EXCEPT ![p].wroteSuper = TRUE]
            /\ pc' = [pc EXCEPT ![p] = "super_likeExists"]
            /\ UNCHANGED result
  /\ UNCHANGED <<likes, passes, blocks, matches, conversations,
                 call, scoring, directory, mutualLike, matchRow>>

\* const likeExists = await prisma.like.findUnique(...); with the edge present
\* the handler logs the activity and returns
SuperLikeLikeExists(p) ==
  /\ pc[p] = "super_likeExists"
  /\ IF EdgeFindUnique(likes, call[p].senderId, call[p].receiverId)
       THEN Finish(p, SuperLikeSuccess)
       ELSE /\ pc' = [pc EXCEPT ![p] = "super_likeCreate"]
            /\ UNCHANGED result
  /\ UNCHANGED <<store, call, scoring, directory, mutualLike, matchRow, hist>>

\* if (!likeExists) await prisma.like.create(...); then the return
SuperLikeLikeCreate(p) ==
  /\ pc[p] = "super_likeCreate"
  /\ IF EdgeKeyTaken(likes, call[p].senderId, call[p].receiverId)
       THEN /\ Finish(p, Rethrown("superLike"))
            /\ UNCHANGED <<likes, hist>>
       ELSE /\ likes' = EdgeInsert(likes, call[p].senderId, call[p].receiverId)
            /\ hist' = [hist EXCEPT ![p].wroteLike = TRUE]
            /\ Finish(p, SuperLikeSuccess)
  /\ UNCHANGED <<passes, superLikes, blocks, matches, conversations,
                 call, scoring, directory, mutualLike, matchRow>>

\* ---- specifications ---------------------------------------------------------
AllQuiet == \A q \in Requests : Quiet(q)

Step(p) ==
  \/ LikeExisting(p) \/ LikeBlocked(p) \/ LikeCreate(p) \/ LikeMutual(p)
  \/ LikeMatchCreate(p) \/ LikeConversationCreate(p)
  \/ PassExisting(p) \/ PassCreate(p)
  \/ SuperLikeExisting(p) \/ SuperLikeBlocked(p) \/ SuperLikeCreate(p)
  \/ SuperLikeLikeExists(p) \/ SuperLikeLikeCreate(p)

Begin(p) ==
  \E s \in Users, r \in Users :
    \/ LikeBegin(p, s, r)
    \/ PassBegin(p, s, r)
    \/ SuperLikeBegin(p, s, r)

\* request-parallel: requests interleave at every await
Next == \E p \in Requests : Begin(p) \/ Step(p)

Spec == Init /\ [][Next]_vars

\* one request at a time: a call begins only when no other is in flight
NextSeq == \E p \in Requests : (AllQuiet /\ Begin(p)) \/ Step(p)

SpecSeq == Init /\ [][NextSeq]_vars

\* a store call of request p rejects (connection lost, timeout): nothing is
\* written and the handler's catch block rethrows it as a 500
StoreError(p) ==
  /\ ~Quiet(p)
  /\ Finish(p, Rethrown(call[p].op))
  /\ UNCHANGED <<store, call, scoring, directory, mutualLike, matchRow, hist>>

NextFault == \E p \in Requests : Begin(p) \/ Step(p) \/ StoreError(p)

SpecFault == Init /\ [][NextFault]_vars

\* ---- personality calls (one action per await) -----------------------------------
\* Every user of the model has a profile row; the lookups of the profile
\* and of the question bank that open a call read data no call changes and
\* are part of its first action.
Resting(t) == task[t].pc \in {"idle", "done"}

\* Call t arrives: calls are interchangeable and numbered in order of arrival.
Arrive(t, op, user1Id, user2Id, answers, at) ==
  /\ task[t].pc = "idle"
  /\ \A q \in Tasks : q < t => task[q].pc # "idle"
  /\ task' = [task EXCEPT ![t] =
                [NoTask EXCEPT !.pc = at, !.op = op, !.user1Id = user1Id,
                               !.user2Id = user2Id, !.answers = answers]]

Return(t, outcome) ==
  task' = [task EXCEPT ![t].pc = "done", ![t].outcome = outcome]

\* the return of a call whose last await cleared the user's cache rows
ReturnCleared(t, outcome) ==
  task' = [task EXCEPT
    ![t].pc = "done", ![t].outcome = outcome,
    ![t].cleared = Cardinality(compatibilityScores
                               \ clearCompatibilityCache(task[t].user1Id))]

matchSide == <<store, directory, pc, call, mutualLike, matchRow, result, hist>>

\* calculateCompatibility(user1Id, user2Id)
CompatibilityBegin(t, user1Id, user2Id) ==
  /\ Arrive(t, "compatibility", user1Id, user2Id, <<>>, "compat_cached")
  /\ UNCHANGED <<matchSide, scoringStore, now>>

\* The three awaits of calculateCompatibility, each as the change it makes
\* to the locals c of the call (a call of its own, or one of those a bulk
\* call starts).
\* const cachedScore = await this.getCachedCompatibilityScore(...);
\* if (cachedScore) return { success: true, compatibilityScore: cachedScore }
AfterCached(c) ==
  LET cached == getCachedCompatibilityScore(c.user1Id, c.user2Id)
      rows == CacheRows(LookupKey(c.user1Id, c.user2Id)) IN
    IF cached # {}
      THEN [c EXCEPT !.pc = "done",
                     !.outcome = CompatibilitySuccess(CHOOSE x \in cached : TRUE),
                     !.lookup = "hit"]
      ELSE [c EXCEPT !.pc = "compat_profiles",
                     !.lookup = IF rows = {} THEN "miss" ELSE "expired"]

\* const [user1Profile, user2Profile] = await Promise.all([...findUnique...]);
\* both must have completed the questionnaire; then the scores are computed
AfterProfiles(c) ==
  LET user1Profile == profiles[c.user1Id]
      user2Profile == profiles[c.user2Id] IN
    IF ~user1Profile.personality_quiz_completed
       \/ ~user2Profile.personality_quiz_completed
      THEN [c EXCEPT !.pc = "done",
                     !.outcome = Thrown("Both users must complete personality questionnaire for compatibility calculation", 400)]
      ELSE [c EXCEPT !.pc = "compat_cache",
                     !.score = calculateCompatibilityScores(user1Profile.traits,
                                                            user2Profile.traits)]

\* await this.cacheCompatibilityScore(user1Id, user2Id, compatibilityScore);
\* return { success: true, compatibilityScore }
AfterCache(c) ==
  [c EXCEPT !.pc = "done", !.outcome = CompatibilitySuccess(c.score),
            !.wrote = TRUE]

CompatibilityCached(t) ==
  /\ task[t].pc = "compat_cached"
  /\ task' = [task EXCEPT ![t] = AfterCached(task[t])]
  /\ UNCHANGED <<matchSide, scoringStore, now>>

CompatibilityProfiles(t) ==
  /\ task[t].pc = "compat_profiles"
  /\ task' = [task EXCEPT ![t] = AfterProfiles(task[t])]
  /\ UNCHANGED <<matchSide, scoringStore, now>>

CompatibilityCache(t) ==
  /\ task[t].pc = "compat_cache"
  /\ compatibilityScores' =
       cacheCompatibilityScore(task[t].user1Id, task[t].user2Id, task[t].score)
  /\ task' = [task EXCEPT ![t] = AfterCache(task[t])]
  /\ UNCHANGED <<matchSide, profiles, personalityAnswers, now>>

\* calculateBulkCompatibility(userId, targetUserIds): the map starts one
\* calculateCompatibility call per target, each suspended at its cache lookup
BulkBegin(t, userId, targetUserIds) ==
  /\ task[t].pc = "idle"
  /\ \A q \in Tasks : q < t => task[q].pc # "idle"
  /\ task' = [task EXCEPT ![t] =
       [NoTask EXCEPT !.pc = "bulk_settle", !.op = "bulk", !.user1Id = userId,
                      !.user2Id = userId, !.targets = targetUserIds,
                      !.subs = [i \in DOMAIN targetUserIds |->
                                  [NoTask EXCEPT !.pc = "compat_cached",
                                                 !.op = "compatibility",
                                                 !.user1Id = userId,
                                                 !.user2Id = targetUserIds[i]]]]]
  /\ UNCHANGED <<matchSide, scoringStore, now>>

BulkCached(t, i) ==
  /\ task[t].pc = "bulk_settle"
  /\ task[t].subs[i].pc = "compat_cached"
  /\ task' = [task EXCEPT ![t].subs[i] = AfterCached(@)]
  /\ UNCHANGED <<matchSide, scoringStore, now>>

BulkProfiles(t, i) ==
  /\ task[t].pc = "bulk_settle"
  /\ task[t].subs[i].pc = "compat_profiles"
  /\ task' = [task EXCEPT ![t].subs[i] = AfterProfiles(@)]
  /\ UNCHANGED <<matchSide, scoringStore, now>>

BulkCache(t, i) ==
  /\ task[t].pc = "bulk_settle"
  /\ task[t].subs[i].pc = "compat_cache"
  /\ compatibilityScores' =
       cacheCompatibilityScore(task[t].subs[i].user1Id, task[t].subs[i].user2Id,
                               task[t].subs[i].score)
  /\ task' = [task EXCEPT ![t].subs[i] = AfterCache(@)]
  /\ UNCHANGED <<matchSide, profiles, personalityAnswers, now>>

\* results.map(...): the target's id spread with the fulfilled value, or with
\* { error: 'Calculation failed' } for a rejected call
Settled(targetId, c) ==
  IF c.outcome.status = 200
    THEN [userId |-> targetId, success |-> TRUE, score |-> c.outcome.score,
          error |-> ""]
    ELSE [userId |-> targetId, success |-> FALSE, score |-> NoScore,
          error |-> "Calculation failed"]

IsSuccess(item) == item.success

\* every settled result is kept
BulkItems_Unfiltered(targetUserIds, subs) ==
  [i \in DOMAIN targetUserIds |-> Settled(targetUserIds[i], subs[i])]

\* results.map(...).filter(result => result.success)
BulkItems(targetUserIds, subs) ==
  SelectSeq([i \in DOMAIN targetUserIds |-> Settled(targetUserIds[i], subs[i])],
            IsSuccess)

\* await Promise.allSettled(...) resolves once every call has returned or
\* thrown; return { success: true, compatibilityScores }
BulkSettle(t) ==
  /\ task[t].pc = "bulk_settle"
  /\ \A i \in DOMAIN task[t].subs : task[t].subs[i].pc = "done"
  /\ Return(t, [NoOutcome EXCEPT !.status = 200,
                                 !.items = BulkItems(task[t].targets, task[t].subs)])
  /\ UNCHANGED <<matchSide, scoringStore, now>>

\* ---- getDiscoveryProfiles (one action per await) ----------------------------------
\* prisma.like.findMany({ where: { senderId: userId } })
LikedUsers(userId) ==
  {e[2] : e \in {d \in DOMAIN likes : d[1] = userId /\ likes[d] > 0}}

\* prisma.pass.findMany({ where: { senderId: userId } })
PassedUsers(userId) ==
  {e[2] : e \in {d \in DOMAIN passes : d[1] = userId /\ passes[d] > 0}}

\* prisma.block.findMany({ where: { senderId: userId } })
BlockedUsers(userId) == {e[2] : e \in {d \in blocks : d[1] = userId}}

\* excludedUserIds, as the set notIn tests membership of
ExcludedUserIds(userId, filters) ==
  {userId} \cup LikedUsers(userId) \cup PassedUsers(userId)
           \cup BlockedUsers(userId) \cup filters.excludeUserIds

\* whereConditions.gender
GenderMatches(preferences, profile) ==
  \/ preferences.genderPreference = "ALL"
  \/ profile.gender = IF preferences.genderPreference = "MALE" THEN "MALE"
                                                               ELSE "FEMALE"

\* whereConditions.dateOfBirth: the stored range, each end replaced by the
\* ad-hoc bound when the caller gave one
BirthDateRange(preferences, filters) ==
  LET adhoc == Truthy(filters.minAge) \/ Truthy(filters.maxAge) IN
    [gte |-> IF adhoc /\ Truthy(filters.maxAge)
               THEN YearsAgo(filters.maxAge + 1)
               ELSE YearsAgo(preferences.maxAge + 1),
     lte |-> IF adhoc /\ Truthy(filters.minAge)
               THEN YearsAgo(filters.minAge)
               ELSE YearsAgo(preferences.minAge)]

\* the profiles that satisfy whereConditions
Candidates(excludedUserIds, preferences, filters) ==
  LET range == BirthDateRange(preferences, filters) IN
    {m \in DOMAIN directory :
       /\ m \notin excludedUserIds
       /\ directory[m].isDiscoverable
       /\ GenderMatches(preferences, directory[m])
       /\ directory[m].dateOfBirth >= range.gte
       /\ directory[m].dateOfBirth <= range.lte}

\* findMany without orderBy: n of the rows, in any order
Fetched(rows, n) ==
  {s \in [1..n -> rows] : \A i \in 1..n, j \in 1..n : i # j => s[i] # s[j]}

\* education.toLowerCase().includes(other.toLowerCase()), on the values the
\* profiles of the model hold
IncludesLower(a, b) ==
  a = b \/ (a = "Software Engineering" /\ b = "Engineering")

\* calculateBasicCompatibility: interests 40, age 20, education 15/10/5,
\* completeness; the sum is taken over the common denominator 20 * s
calculateBasicCompatibility(user1, user2) ==
  LET n1 == Cardinality(user1.interests)
      n2 == Cardinality(user2.interests)
      common == Cardinality(user1.interests \cap user2.interests)
      both == n1 > 0 /\ n2 > 0
      s == IF both THEN n1 + n2 ELSE 1
      ageDiff == Abs(getFullYear(user2.dateOfBirth) - getFullYear(user1.dateOfBirth))
      ageScore == 2 * Max(0, 10 - ageDiff)
      educationScore ==
        IF user1.education = "" \/ user2.education = "" THEN 0
        ELSE IF user1.education = user2.education THEN 15
        ELSE IF IncludesLower(user1.education, user2.education)
                \/ IncludesLower(user2.education, user1.education) THEN 10
        ELSE 5
      completeness == user1.profileCompleteness + user2.profileCompleteness
      score == (IF both THEN 1600 * common ELSE 0)
                 + 20 * s * (ageScore + educationScore) + s * completeness
  IN Min(100, RoundDiv(score, 20 * s))

\* calculateDistance for two points on one meridian, where the haversine
\* formula gives R * |dLat|: 6371 * pi / 180 = 111.1949 km per degree.
\* Latitudes are in tenths of a degree, the result in tenths of a kilometre.
calculateDistance(lat1, lon1, lat2, lon2) ==
  RoundDiv(1111949 * Abs(lat2 - lat1), 10000)

\* distance of a candidate: null unless all four coordinates are truthy
DistanceTo(currentUser, profile) ==
  IF Truthy(currentUser.latitude) /\ Truthy(currentUser.longitude)
     /\ Truthy(profile.latitude) /\ Truthy(profile.longitude)
    THEN calculateDistance(currentUser.latitude, currentUser.longitude,
                           profile.latitude, profile.longitude)
    ELSE Null

\* compatibility of a candidate: the overall score of the personality call,
\* or the basic score when that call threw
Scored(currentUser, userId, c) ==
  [userId |-> userId,
   compatibility |-> IF c.outcome.status = 200
                       THEN c.outcome.score.overallScore
                       ELSE calculateBasicCompatibility(currentUser,
                                                        directory[userId]),
   distance |-> DistanceTo(currentUser, directory[userId])]

\* the filter on distance (kilometres against tenths of a kilometre)
WithinDistance(filters, preferences, distance) ==
  IF Truthy(filters.maxDistance) /\ distance # Null
    THEN distance <= 10 * filters.maxDistance
  ELSE IF Truthy(preferences.maxDistance) /\ distance # Null
    THEN distance <= 10 * preferences.maxDistance
  ELSE TRUE

\* profilesWithScores.filter(...)
RECURSIVE FilterByDistance(_, _, _)
FilterByDistance(filters, preferences, profilesWithScores) ==
  IF profilesWithScores = <<>> THEN <<>>
  ELSE LET x == Head(profilesWithScores)
           rest == FilterByDistance(filters, preferences, Tail(profilesWithScores))
       IN IF WithinDistance(filters, preferences, x.distance)
            THEN <<x>> \o rest ELSE rest

\* the filtered list is left in the order of the fetch
SortByCompatibility_Unsorted(s) == s

\* .sort((a, b) => b.compatibility - a.compatibility): stable, descending
RECURSIVE SortByCompatibility(_)
SortByCompatibility(s) ==
  IF s = <<>> THEN <<>>
  ELSE LET x == Head(s)
           rest == SortByCompatibility(Tail(s))
           k == Cardinality({i \in DOMAIN rest :
                               rest[i].compatibility > x.compatibility})
       IN SubSeq(rest, 1, k) \o <<x>> \o SubSeq(rest, k + 1, Len(rest))

\* .slice(0, limit)
Slice(s, limit) == SubSeq(s, 1, Min(limit, Len(s)))

\* { success: true, profiles: sortedProfiles, total }
DiscoverySuccess(sortedProfiles) ==
  [NoOutcome EXCEPT !.status = 200, !.profiles = sortedProfiles]

\* entry, and the lookup of the caller's profile with its preferences
DiscoverBegin(t, userId, limit, filters) ==
  /\ task[t].pc = "idle"
  /\ \A q \in Tasks : q < t => task[q].pc # "idle"
  /\ LET currentUser == directory[userId]
         arrived == [NoTask EXCEPT !.op = "discover", !.user1Id = userId,
                                   !.user2Id = userId, !.limit = limit,
                                   !.filters = filters] IN
       task' = [task EXCEPT ![t] =
         IF ~currentUser.isDiscoverable
           THEN [arrived EXCEPT !.pc = "done",
                                !.outcome = Thrown("Discovery is disabled", 400)]
         ELSE IF currentUser.preferences = NoPreferences
           THEN [arrived EXCEPT !.pc = "done",
                                !.outcome = Thrown("Match preferences not set", 400)]
         ELSE [arrived EXCEPT !.pc = "discover_interactions"]]
  /\ UNCHANGED <<matchSide, scoringStore, now>>

\* const [likedUsers, passedUsers, blockedUsers] = await Promise.all([...])
DiscoverInteractions(t) ==
  /\ task[t].pc = "discover_interactions"
  /\ task' = [task EXCEPT
       ![t].pc = "discover_candidates",
       ![t].excludedUserIds = ExcludedUserIds(task[t].user1Id, task[t].filters)]
  /\ UNCHANGED <<matchSide, scoringStore, now>>

\* const potentialMatches = await prisma.profile.findMany({ where, take:
\* limit * 3 }); the map then starts one calculateCompatibility call per row
DiscoverCandidates(t) ==
  /\ task[t].pc = "discover_candidates"
  /\ LET rows == Candidates(task[t].excludedUserIds,
                            directory[task[t].user1Id].preferences,
                            task[t].filters) IN
       \E potentialMatches \in Fetched(rows, Min(task[t].limit * 3,
                                                 Cardinality(rows))) :
         task' = [task EXCEPT
           ![t].pc = "discover_scores",
           ![t].potentialMatches = potentialMatches,
           ![t].subs = [i \in DOMAIN potentialMatches |->
                          [NoTask EXCEPT !.pc = "compat_cached",
                                         !.op = "compatibility",
                                         !.user1Id = task[t].user1Id,
                                         !.user2Id = potentialMatches[i]]]]
  /\ UNCHANGED <<matchSide, scoringStore, now>>

DiscoverCached(t, i) ==
  /\ task[t].pc = "discover_scores"
  /\ task[t].subs[i].pc = "compat_cached"
  /\ task' = [task EXCEPT ![t].subs[i] = AfterCached(@)]
  /\ UNCHANGED <<matchSide, scoringStore, now>>

DiscoverProfiles(t, i) ==
  /\ task[t].pc = "discover_scores"
  /\ task[t].subs[i].pc = "compat_profiles"
  /\ task' = [task EXCEPT ![t].subs[i] = AfterProfiles(@)]
  /\ UNCHANGED <<matchSide, scoringStore, now>>

DiscoverCache(t, i) ==
  /\ task[t].pc = "discover_scores"
  /\ task[t].subs[i].pc = "compat_cache"
  /\ compatibilityScores' =
       cacheCompatibilityScore(task[t].subs[i].user1Id, task[t].subs[i].user2Id,
                               task[t].subs[i].score)
  /\ task' = [task EXCEPT ![t].subs[i] = AfterCache(@)]
  /\ UNCHANGED <<matchSide, profiles, personalityAnswers, now>>

\* await Promise.all(...) resolves once every candidate has its score; then
\* the distance filter, the sort and the slice
DiscoverReturn(t) ==
  /\ task[t].pc = "discover_scores"
  /\ \A i \in DOMAIN task[t].subs : task[t].subs[i].pc = "done"
  /\ LET currentUser == directory[task[t].user1Id]
         profilesWithScores ==
           [i \in DOMAIN task[t].potentialMatches |->
              Scored(currentUser, task[t].potentialMatches[i], task[t].subs[i])]
         filteredProfiles ==
           FilterByDistance(task[t].filters, currentUser.preferences,
                            profilesWithScores)
     IN Return(t, DiscoverySuccess(
                    Slice(SortByCompatibility(filteredProfiles), task[t].limit)))
  /\ UNCHANGED <<matchSide, scoringStore, now>>

\* submitPersonalityAnswers(userId, answers)
SubmitBegin(t, userId, answers) ==
  /\ Arrive(t, "submit", userId, userId, answers, "submit_tx")
  /\ UNCHANGED <<matchSide, scoringStore, now>>

UnknownQuestion(answers) ==
  \E i \in DOMAIN answers : answers[i].questionId \notin DOMAIN QuestionMap

\* unique (profile_id, question_id): the second create of a question throws
RepeatedQuestion(answers) ==
  \E i \in DOMAIN answers, j \in DOMAIN answers :
    i # j /\ answers[i].questionId = answers[j].questionId

SubmitSuccess(personalityScores) ==
  [NoOutcome EXCEPT !.status = 200,
                    !.message = "Personality questionnaire completed successfully",
                    !.traits = personalityScores]

\* the prior answers are deleted and stay deleted when the insert fails
SubmitTransaction_NoRollback(t) ==
  /\ task[t].pc = "submit_tx"
  /\ LET userId == task[t].user1Id
         answers == task[t].answers IN
       IF UnknownQuestion(answers) \/ RepeatedQuestion(answers)
         THEN /\ Return(t, Thrown("Question not found", 400))
              /\ personalityAnswers' = [personalityAnswers EXCEPT ![userId] = {}]
              /\ UNCHANGED profiles
         ELSE /\ personalityAnswers' = [personalityAnswers EXCEPT ![userId] =
                                          {answers[i] : i \in DOMAIN answers}]
              /\ profiles' = [profiles EXCEPT ![userId] =
                                [personality_quiz_completed |-> TRUE,
                                 traits |-> calculatePersonalityScores(answers)]]
              /\ task' = [task EXCEPT ![t].pc = "submit_clear"]
  /\ UNCHANGED <<matchSide, compatibilityScores, now>>

\* await prisma.$transaction(...): deleteMany, one create per answer, the
\* scores, profile.update; a throw inside rolls everything back. The
\* transaction is one step.
SubmitTransaction(t) ==
  /\ task[t].pc = "submit_tx"
  /\ LET userId == task[t].user1Id
         answers == task[t].answers IN
       IF UnknownQuestion(answers)
         THEN /\ Return(t, Thrown("Question not found", 400))
              /\ UNCHANGED <<profiles, personalityAnswers>>
         ELSE IF RepeatedQuestion(answers)
         THEN /\ Return(t, Thrown("Failed to submit personality answers", 500))
              /\ UNCHANGED <<profiles, personalityAnswers>>
         ELSE /\ personalityAnswers' = [personalityAnswers EXCEPT ![userId] =
                                          {answers[i] : i \in DOMAIN answers}]
              /\ profiles' = [profiles EXCEPT ![userId] =
                                [personality_quiz_completed |-> TRUE,
                                 traits |-> calculatePersonalityScores(answers)]]
              /\ task' = [task EXCEPT ![t].pc = "submit_clear"]
  /\ UNCHANGED <<matchSide, compatibilityScores, now>>

\* await this.clearCompatibilityCache(userId); return { success: true, ... }
SubmitClear(t) ==
  /\ task[t].pc = "submit_clear"
  /\ compatibilityScores' = clearCompatibilityCache(task[t].user1Id)
  /\ ReturnCleared(t, SubmitSuccess(profiles[task[t].user1Id].traits))
  /\ UNCHANGED <<matchSide, profiles, personalityAnswers, now>>

\* resetPersonalityData(userId)
ResetBegin(t, userId) ==
  /\ Arrive(t, "reset", userId, userId, <<>>, "reset_tx")
  /\ UNCHANGED <<matchSide, scoringStore, now>>

ResetSuccess ==
  [NoOutcome EXCEPT !.status = 200,
     !.message = "Personality data has been reset. You can now retake the questionnaire."]

\* the answers are deleted and the profile columns are left as they are
ResetTransaction_KeepsProfile(t) ==
  /\ task[t].pc = "reset_tx"
  /\ personalityAnswers' = [personalityAnswers EXCEPT ![task[t].user1Id] = {}]
  /\ task' = [task EXCEPT ![t].pc = "reset_clear"]
  /\ UNCHANGED <<matchSide, profiles, compatibilityScores, now>>

\* await prisma.$transaction(...): deleteMany of the answers, profile.update
\* with every trait null and personality_quiz_completed false
ResetTransaction(t) ==
  /\ task[t].pc = "reset_tx"
  /\ personalityAnswers' = [personalityAnswers EXCEPT ![task[t].user1Id] = {}]
  /\ profiles' = [profiles EXCEPT ![task[t].user1Id] = FreshProfile]
  /\ task' = [task EXCEPT ![t].pc = "reset_clear"]
  /\ UNCHANGED <<matchSide, compatibilityScores, now>>

\* await this.clearCompatibilityCache(userId); return { success: true, ... }
ResetClear(t) ==
  /\ task[t].pc = "reset_clear"
  /\ compatibilityScores' = clearCompatibilityCache(task[t].user1Id)
  /\ ReturnCleared(t, ResetSuccess)
  /\ UNCHANGED <<matchSide, profiles, personalityAnswers, now>>

\* the cache lookup rejects: getCachedCompatibilityScore logs it and returns
\* null, and the call goes on as after a miss
CacheReadFails(t) ==
  /\ task[t].pc = "compat_cached"
  /\ task' = [task EXCEPT ![t].pc = "compat_profiles", ![t].lookup = "failed"]
  /\ UNCHANGED <<matchSide, scoringStore, now>>

\* the rejected upsert is rethrown and the handler's catch makes it a 500
CacheWriteFails_Rethrown(t) ==
  /\ task[t].pc = "compat_cache"
  /\ Return(t, Thrown("Failed to calculate compatibility", 500))
  /\ UNCHANGED <<matchSide, scoringStore, now>>

\* the upsert rejects: cacheCompatibilityScore logs it, nothing is written
\* and the call returns the scores it computed
CacheWriteFails(t) ==
  /\ task[t].pc = "compat_cache"
  /\ Return(t, CompatibilitySuccess(task[t].score))
  /\ UNCHANGED <<matchSide, scoringStore, now>>

\* a day passes
Tick ==
  /\ now < MaxNow
  /\ now' = now + 1
  /\ UNCHANGED <<matchSide, scoringStore, task>>

\* ---- personality: initial states and specifications ----------------------------
\* the answer arrays the clients submit: two that are stored, one naming a
\* question the bank does not hold, one answering a question twice
Submissions ==
  {<<Answer(1, 0)>>,
   <<Answer(1, 1), Answer(2, 0)>>,
   <<Answer(1, 0), Answer(0, 0)>>,
   <<Answer(2, 0), Answer(2, 1)>>}

Accepted == {s \in Submissions : ~UnknownQuestion(s) /\ ~RepeatedQuestion(s)}

\* a store the match calls superLike(1,2), like(2,1), pass(2,1) leave behind
SettledStore ==
  /\ likes = [e \in Pairs |-> IF e \in {<<1, 2>>, <<2, 1>>} THEN 1 ELSE 0]
  /\ passes = [e \in Pairs |-> IF e = <<2, 1>> THEN 1 ELSE 0]
  /\ superLikes = [e \in Pairs |-> IF e = <<1, 2>> THEN 1 ELSE 0]
  /\ blocks = {}
  /\ matches = {[id |-> 1, user1Id |-> 1, user2Id |-> 2]}
  /\ conversations = {[id |-> 1, matchId |-> 1, user1Id |-> 1, user2Id |-> 2]}

NoRequests ==
  /\ pc = [p \in Requests |-> "idle"]
  /\ call = [p \in Requests |-> NoCall]
  /\ mutualLike = [p \in Requests |-> FALSE]
  /\ matchRow = [p \in Requests |-> 0]
  /\ result = [p \in Requests |-> NoResult]
  /\ hist = [p \in Requests |-> NoHist]

\* the submission a user of the initial state completed
StartAnswers(u) ==
  IF u % 2 = 1 THEN <<Answer(1, 0)>> ELSE <<Answer(1, 1), Answer(2, 0)>>

StartProfile(u) ==
  [personality_quiz_completed |-> TRUE,
   traits |-> calculatePersonalityScores(StartAnswers(u))]

\* the row a compatibility(a, b) call of day 0 left in the cache
StartRow(a, b) ==
  [user1Id |-> a, user2Id |-> b,
   score |-> calculateCompatibilityScores(StartProfile(a).traits,
                                          StartProfile(b).traits),
   calculatedAt |-> 0, expiresAt |-> CacheTtlDays]

\* the first users have completed the questionnaire, the others never submitted;
\* the cache is empty, or holds the rows of the pairs of completed users;
\* no call is in flight
InitQuiz ==
  /\ SettledStore
  /\ NoRequests
  /\ directory = [u \in Users |-> StartListing(u)]
  /\ \E completed \in {1..k : k \in 0..NumUsers}, warm \in BOOLEAN :
       /\ personalityAnswers =
            [u \in Users |->
               IF u \in completed
                 THEN {StartAnswers(u)[i] : i \in DOMAIN StartAnswers(u)}
                 ELSE {}]
       /\ profiles =
            [u \in Users |-> IF u \in completed THEN StartProfile(u)
                                                ELSE FreshProfile]
       /\ compatibilityScores =
            IF warm
              THEN {StartRow(e[1], e[2]) :
                      e \in {d \in completed \X completed : d[1] < d[2]}}
              ELSE {}
  /\ now = 0
  /\ task = [t \in Tasks |-> NoTask]

AllResting == \A t \in Tasks : Resting(t)

CompatibilityStep(t) ==
  \/ CompatibilityCached(t) \/ CompatibilityProfiles(t) \/ CompatibilityCache(t)

QuizStep(t) ==
  \/ CompatibilityStep(t)
  \/ SubmitTransaction(t) \/ SubmitClear(t)
  \/ ResetTransaction(t) \/ ResetClear(t)

QuizBegin(t, submissions) ==
  \/ \E a \in Users, b \in Users : CompatibilityBegin(t, a, b)
  \/ \E u \in Users, s \in submissions : SubmitBegin(t, u, s)
  \/ \E u \in Users : ResetBegin(t, u)

\* personality calls of different clients interleave at every await
NextQuiz == \E t \in Tasks : QuizBegin(t, Accepted) \/ QuizStep(t)

SpecQuiz == InitQuiz /\ [][NextQuiz]_vars

\* one personality call at a time
NextQuizSeq == \E t \in Tasks : (AllResting /\ QuizBegin(t, Submissions)) \/ QuizStep(t)

SpecQuizSeq == InitQuiz /\ [][NextQuizSeq]_vars

\* compatibility calls, one at a time, while the days pass; a day is long
\* against a call, so the days pass between the calls
NextCache ==
  \/ \E t \in Tasks :
       \/ AllResting /\ \E a \in Users, b \in Users : CompatibilityBegin(t, a, b)
       \/ CompatibilityStep(t)
  \/ AllResting /\ Tick

SpecCache == InitQuiz /\ [][NextCache]_vars

\* compatibility calls, one at a time, whose cache lookups and upserts may reject
NextCacheFault ==
  \E t \in Tasks :
    \/ AllResting /\ \E a \in Users, b \in Users : CompatibilityBegin(t, a, b)
    \/ CompatibilityStep(t)
    \/ CacheReadFails(t)
    \/ CacheWriteFails(t)

SpecCacheFault == InitQuiz /\ [][NextCacheFault]_vars

\* the lists of targets of a bulk call
TargetLists == UNION {[1..n -> Users] : n \in 0..MaxTargets}

\* one bulk call over the initial store; the calls it starts interleave
NextBulk ==
  \E t \in Tasks :
    \/ /\ \A q \in Tasks : task[q].pc = "idle"
       /\ \E u \in Users, targets \in TargetLists : BulkBegin(t, u, targets)
    \/ \E i \in DOMAIN task[t].subs :
         BulkCached(t, i) \/ BulkProfiles(t, i) \/ BulkCache(t, i)
    \/ BulkSettle(t)

SpecBulk == InitQuiz /\ [][NextBulk]_vars

\* ---- the calculator over a grid of trait vectors ---------------------------------
\* stored trait values (hundredths) the vectors are built from
TraitValues == {0, 20, 50, 90}

\* a stored vector: extroversion e, growth_mindset g, every lifestyle trait
\* l, the other core traits 0.5
TraitVector(e, g, l) ==
  [t \in Traits |->
     CASE t = "extroversion" -> e
       [] t = "growth_mindset" -> g
       [] t \in LifestyleTraits -> l
       [] OTHER -> 50]

TraitVectors == {TraitVector(e, g, l) : e \in TraitValues, g \in TraitValues,
                                        l \in TraitValues}

\* users 1 and 2 hold any two vectors of the grid, the cache is empty
InitScore ==
  /\ SettledStore
  /\ NoRequests
  /\ directory = [u \in Users |-> StartListing(u)]
  /\ \E v \in TraitVectors, w \in TraitVectors :
       profiles = [u \in Users |->
                     IF u = 1 THEN [personality_quiz_completed |-> TRUE, traits |-> v]
                     ELSE IF u = 2 THEN [personality_quiz_completed |-> TRUE, traits |-> w]
                     ELSE FreshProfile]
  /\ personalityAnswers = [u \in Users |-> {}]
  /\ compatibilityScores = {}
  /\ now = 0
  /\ task = [t \in Tasks |-> NoTask]

\* compatibility(1,2) and compatibility(2,1), one call at a time
NextScore ==
  \E t \in Tasks :
    \/ AllResting /\ \E e \in {<<1, 2>>, <<2, 1>>} : CompatibilityBegin(t, e[1], e[2])
    \/ CompatibilityStep(t)

SpecScore == InitScore /\ [][NextScore]_vars

\* ---- one discovery call over a store of likes, passes and blocks -----------------
\* the users of the discovery runs
Members == 1..NumMembers

\* what ties another user to user 1 in the initial store
Relations == {"none", "liked", "passed", "blocked", "blockedBy"}

\* User 1 has liked, passed or blocked some of the others, and some have
\* blocked user 1; everybody is discoverable and within everybody's
\* preferences; users 1 and 2 have completed the questionnaire; the cache
\* is empty and no call is in flight.
InitDiscover ==
  /\ \E rel \in [Members \ {1} -> Relations] :
       /\ likes = [e \in Members \X Members |->
                     IF e[1] = 1 /\ e[2] # 1 /\ rel[e[2]] = "liked" THEN 1 ELSE 0]
       /\ passes = [e \in Members \X Members |->
                      IF e[1] = 1 /\ e[2] # 1 /\ rel[e[2]] = "passed" THEN 1 ELSE 0]
       /\ blocks = {<<1, m>> : m \in {x \in Members \ {1} : rel[x] = "blocked"}}
                     \cup {<<m, 1>> : m \in {x \in Members \ {1} : rel[x] = "blockedBy"}}
  /\ superLikes = [e \in Members \X Members |-> 0]
  /\ matches = {}
  /\ conversations = {}
  /\ NoRequests
  /\ directory = [m \in Members |-> StartListing(m)]
  /\ profiles = [m \in Members |-> IF m <= 2 THEN StartProfile(m) ELSE FreshProfile]
  /\ personalityAnswers =
       [m \in Members |->
          IF m <= 2 THEN {StartAnswers(m)[i] : i \in DOMAIN StartAnswers(m)}
                    ELSE {}]
  /\ compatibilityScores = {}
  /\ now = 0
  /\ task = [t \in Tasks |-> NoTask]

\* the limits of the discovery calls
Limits == {1, 2}

\* the caller-supplied exclusions: none, or one user
Exclusions == {{}} \cup {{m} : m \in Members}

DiscoverStep(t) ==
  \/ DiscoverInteractions(t)
  \/ DiscoverCandidates(t)
  \/ \E i \in DOMAIN task[t].subs :
       DiscoverCached(t, i) \/ DiscoverProfiles(t, i) \/ DiscoverCache(t, i)
  \/ DiscoverReturn(t)

\* one discovery call of user 1 or user 2; the calculateCompatibility calls
\* it starts interleave
NextDiscover ==
  \E t \in Tasks :
    \/ /\ \A q \in Tasks : task[q].pc = "idle"
       /\ \E userId \in {1, 2}, limit \in Limits, excludeUserIds \in Exclusions :
            DiscoverBegin(t, userId, limit, Filters(Null, Null, Null, excludeUserIds))
    \/ DiscoverStep(t)

SpecDiscover == InitDiscover /\ [][NextDiscover]_vars

\* ---- one discovery call over profiles of several ages ------------------------------
\* no like, pass, block or match row
EmptyEdges ==
  /\ likes = [e \in Members \X Members |-> 0]
  /\ passes = [e \in Members \X Members |-> 0]
  /\ superLikes = [e \in Members \X Members |-> 0]
  /\ blocks = {}
  /\ matches = {}
  /\ conversations = {}

\* users 1 and 2 have completed the questionnaire; the cache is empty and no
\* call is in flight
DiscoverReady ==
  /\ NoRequests
  /\ profiles = [m \in Members |-> IF m <= 2 THEN StartProfile(m) ELSE FreshProfile]
  /\ personalityAnswers =
       [m \in Members |->
          IF m <= 2 THEN {StartAnswers(m)[i] : i \in DOMAIN StartAnswers(m)}
                    ELSE {}]
  /\ compatibilityScores = {}
  /\ now = 0
  /\ task = [t \in Tasks |-> NoTask]

\* the stored age range of user 1
StoredRange == [minAge |-> 25, maxAge |-> 35]

\* birth dates of the other users: 20, 30 and 40 years ago today, 36 years
\* ago today (the 36th birthday), and 36 years ago earlier in the year
BirthDates ==
  {DateOf(CurrentYear - 20, 2), DateOf(CurrentYear - 30, 2),
   DateOf(CurrentYear - 36, 2), DateOf(CurrentYear - 36, 1),
   DateOf(CurrentYear - 40, 2)}

\* the ad-hoc age bounds of a call: left out, or a number of years
AgeBounds == {Null, 18, 30, 50}

InitDiscoverAge ==
  /\ EmptyEdges
  /\ DiscoverReady
  /\ \E dateOfBirth \in [Members \ {1} -> BirthDates] :
       directory =
         [m \in Members |->
            IF m = 1
              THEN [StartListing(1) EXCEPT
                      !.preferences = Preferences("ALL", StoredRange.minAge,
                                                  StoredRange.maxAge, 500)]
              ELSE [StartListing(m) EXCEPT !.dateOfBirth = dateOfBirth[m]]]

\* one discovery call of user 1 with ad-hoc age bounds
NextDiscoverAge ==
  \E t \in Tasks :
    \/ /\ \A q \in Tasks : task[q].pc = "idle"
       /\ \E minAge \in AgeBounds, maxAge \in AgeBounds :
            DiscoverBegin(t, 1, 2, Filters(minAge, maxAge, Null, {}))
    \/ DiscoverStep(t)

SpecDiscoverAge == InitDiscoverAge /\ [][NextDiscoverAge]_vars

\* ---- one discovery call over profiles at several places ------------------------------
\* where the other users are: 0.5 and 1.5 degrees north of user 1, on the
\* equator, or nowhere (no coordinates stored)
Places ==
  {[latitude |-> 290, longitude |-> 77], [latitude |-> 300, longitude |-> 77],
   [latitude |-> 0, longitude |-> 77], [latitude |-> Null, longitude |-> Null]}

\* the ad-hoc maximum distance of a call: left out, or kilometres
DistanceBounds == {Null, 50, 200}

\* user 1 stores a maximum distance of 100 km and has coordinates or not
InitDiscoverDistance ==
  /\ EmptyEdges
  /\ DiscoverReady
  /\ \E place \in [Members \ {1} -> Places], located \in BOOLEAN :
       directory =
         [m \in Members |->
            IF m = 1
              THEN [StartListing(1) EXCEPT
                      !.preferences = Preferences("ALL", 18, 100, 100),
                      !.latitude = IF located THEN @ ELSE Null,
                      !.longitude = IF located THEN @ ELSE Null]
              ELSE [StartListing(m) EXCEPT !.latitude = place[m].latitude,
                                           !.longitude = place[m].longitude]]

\* one discovery call of user 1 with an ad-hoc maximum distance and a limit
\* that cuts nothing
NextDiscoverDistance ==
  \E t \in Tasks :
    \/ /\ \A q \in Tasks : task[q].pc = "idle"
       /\ \E maxDistance \in DistanceBounds :
            DiscoverBegin(t, 1, Cardinality(Members),
                          Filters(Null, Null, maxDistance, {}))
    \/ DiscoverStep(t)

SpecDiscoverDistance == InitDiscoverDistance /\ [][NextDiscoverDistance]_vars

\* ---- match requests and a questionnaire call together ------------------------------
\* The store is empty or holds the match of users 1 and 2; both have completed
\* the questionnaire and the cache holds the row of the pair.
InitMixed ==
  /\ \/ SettledStore
     \/ /\ likes = [e \in Pairs |-> 0]
        /\ passes = [e \in Pairs |-> 0]
        /\ superLikes = [e \in Pairs |-> 0]
        /\ blocks = {}
        /\ matches = {}
        /\ conversations = {}
  /\ NoRequests
  /\ directory = [u \in Users |-> StartListing(u)]
  /\ personalityAnswers =
       [u \in Users |->
          IF u <= 2 THEN {StartAnswers(u)[i] : i \in DOMAIN StartAnswers(u)}
                    ELSE {}]
  /\ profiles = [u \in Users |-> IF u <= 2 THEN StartProfile(u) ELSE FreshProfile]
  /\ compatibilityScores = {StartRow(1, 2)}
  /\ now = 0
  /\ task = [t \in Tasks |-> NoTask]

\* like, pass and superLike requests between users 1 and 2 interleave with
\* one submitPersonalityAnswers or resetPersonalityData call of one of them
NextMixed ==
  \/ \E p \in Requests :
       \/ \E e \in {<<1, 2>>, <<2, 1>>} :
            \/ LikeBegin(p, e[1], e[2])
            \/ PassBegin(p, e[1], e[2])
            \/ SuperLikeBegin(p, e[1], e[2])
       \/ Step(p)
  \/ \E u \in {1, 2} :
       \/ \E s \in Accepted : SubmitBegin(1, u, s)
       \/ ResetBegin(1, u)
  \/ SubmitTransaction(1) \/ SubmitClear(1)
  \/ ResetTransaction(1) \/ ResetClear(1)

SpecMixed == InitMixed /\ [][NextMixed]_vars
\* ---- one submission over the seeded bank ----------------------------------------
\* the option indexes a client may send: the six options of a seeded
\* question and one index past them
OptionIndexes == 0..6

\* the answer arrays: each question of the bank answered once or not at all
AnswerArrays ==
  {(IF f[1] = Null THEN <<>> ELSE <<Answer(1, f[1])>>)
     \o (IF f[2] = Null THEN <<>> ELSE <<Answer(2, f[2])>>)
     \o (IF f[3] = Null THEN <<>> ELSE <<Answer(3, f[3])>>) :
   f \in [DOMAIN QuestionMap -> OptionIndexes \cup {Null}]}

\* some users have completed the questionnaire before, none is cached
InitTraits ==
  /\ SettledStore
  /\ NoRequests
  /\ directory = [u \in Users |-> StartListing(u)]
  /\ \E completed \in {1..k : k \in 0..NumUsers} :
       /\ personalityAnswers =
            [u \in Users |->
               IF u \in completed
                 THEN {StartAnswers(u)[i] : i \in DOMAIN StartAnswers(u)}
                 ELSE {}]
       /\ profiles =
            [u \in Users |-> IF u \in completed THEN StartProfile(u)
                                                ELSE FreshProfile]
  /\ compatibilityScores = {}
  /\ now = 0
  /\ task = [t \in Tasks |-> NoTask]

\* one submitAnswers call of user 1 or 2
NextTraits ==
  \/ \E u \in {1, 2}, s \in AnswerArrays : SubmitBegin(1, u, s)
  \/ SubmitTransaction(1)
  \/ SubmitClear(1)

SpecTraits == InitTraits /\ [][NextTraits]_vars


\* ---- vocabulary of the properties ----------------------------------------------
Done(op) == {p \in Requests : pc[p] = "done" /\ call[p].op = op}

MatchesOf(a, b) == {m \in matches : {m.user1Id, m.user2Id} = {a, b}}

ConversationsOf(a, b) == {c \in conversations : {c.user1Id, c.user2Id} = {a, b}}

BlockedEitherWay(a, b) == <<a, b>> \in blocks \/ <<b, a>> \in blocks

Opposite(p, q) ==
  /\ p # q
  /\ call[p].senderId = call[q].receiverId
  /\ call[p].receiverId = call[q].senderId
  /\ call[p].senderId # call[p].receiverId

\* C1: when like(A,B) and like(B,A) have both run to completion, each having
\* inserted its Like edge, under any interleaving of their store calls, the
\* store holds exactly one Match and exactly one Conversation for {A,B}.
C1_ExactlyOneMatchRace ==
  \A p \in Done("like"), q \in Done("like") :
    (Opposite(p, q) /\ hist[p].wroteLike /\ hist[q].wroteLike) =>
      /\ Cardinality(MatchesOf(call[p].senderId, call[p].receiverId)) = 1
      /\ Cardinality(ConversationsOf(call[p].senderId, call[p].receiverId)) = 1

\* both calls saw the other's edge and both tried to insert the Match
C1_Witness ==
  \E p \in Done("like"), q \in Done("like") :
    /\ Opposite(p, q)
    /\ hist[p].recip = "present" /\ hist[q].recip = "present"
    /\ Cardinality(MatchesOf(call[p].senderId, call[p].receiverId)) = 1

\* C2: a like call whose Match insert lost the race on the canonical pair
\* returns success to its caller.
C2_RaceLoserSucceeds ==
  \A p \in Done("like") : hist[p].conflict => result[p].status = 200

\* C3: once all calls have completed, a Match exists for {A,B} if and only
\* if both Like edges A->B and B->A exist.
C3_MatchIffMutualLikes ==
  AllQuiet =>
    \A a \in Users, b \in Users :
      a # b => ((MatchesOf(a, b) # {}) <=> (likes[<<a, b>>] > 0 /\ likes[<<b, a>>] > 0))

\* C4: once all calls have completed or failed, every Match has exactly one
\* Conversation and every Conversation belongs to exactly one Match.
C4_MatchConversationOneToOne ==
  AllQuiet =>
    /\ \A m \in matches : Cardinality({c \in conversations : c.matchId = m.id}) = 1
    /\ \A c \in conversations : Cardinality({m \in matches : m.id = c.matchId}) = 1

\* steps of request p never touch the Like, Match or Conversation tables
KeepsLikesAndMatches(p) ==
  pc'[p] # pc[p] => UNCHANGED <<likes, matches, conversations>>

\* C5: a like(A,B) call made when the Like edge A->B already exists fails
\* with the 'already liked' InvalidOperation (400), exactly one edge A->B
\* remains, and no step of the call changes a Like, Match or Conversation.
C5_SecondLikeAlreadyLiked ==
  /\ [](\A p \in Done("like") :
          hist[p].likeAtStart =>
            /\ result[p] = AppError("Profile already liked", 400)
            /\ likes[<<call[p].senderId, call[p].receiverId>>] = 1)
  /\ [][\A p \in Requests :
          (call[p].op = "like" /\ hist[p].likeAtStart) => KeepsLikesAndMatches(p)]_vars

\* the second of two like(A,B) calls has returned
C5_Witness ==
  \E p \in Done("like"), q \in Done("like") :
    /\ p # q /\ call[p] = call[q]
    /\ hist[p].wroteLike /\ hist[q].likeAtStart
    /\ result[q].status = 400

\* C6: a successful like reports isMatch = true, with the identifiers of a
\* stored Match of the pair and of its Conversation, exactly when the edge
\* receiver->sender existed at the reciprocity check; otherwise it reports
\* isMatch = false and has created no Match.
C6_IsMatchIffReciprocal ==
  \A p \in Done("like") :
    result[p].status = 200 =>
      /\ result[p].isMatch <=> hist[p].recip = "present"
      /\ result[p].isMatch =>
           /\ \E m \in MatchesOf(call[p].senderId, call[p].receiverId) :
                m.id = result[p].matchId
           /\ \E c \in conversations :
                c.id = result[p].conversationId /\ c.matchId = result[p].matchId
      /\ ~result[p].isMatch =>
           /\ matchRow[p] = 0
           /\ result[p].matchId = 0 /\ result[p].conversationId = 0

\* both outcomes side by side: the first like found no reciprocal edge, the
\* second found it
C6_Witness ==
  \E p \in Done("like"), q \in Done("like") :
    /\ result[p].status = 200 /\ ~result[p].isMatch /\ hist[p].recip = "absent"
    /\ result[q].status = 200 /\ result[q].isMatch /\ hist[q].recip = "present"

\* C7: like(sender, receiver) with sender = receiver, or with a Block edge
\* between the two in either direction, fails with an InvalidOperation (400)
\* and no step of it changes the store.
C7_LikeRejectsSelfAndBlocked ==
  /\ [](\A p \in Done("like") :
          (call[p].senderId = call[p].receiverId
             \/ BlockedEitherWay(call[p].senderId, call[p].receiverId))
            => result[p].status = 400)
  /\ [][\A p \in Requests :
          (pc'[p] # pc[p] /\ call'[p].op = "like"
             /\ (call'[p].senderId = call'[p].receiverId
                   \/ BlockedEitherWay(call'[p].senderId, call'[p].receiverId)))
            => UNCHANGED store]_vars

\* a self-like and a like across a block (the receiver blocked the sender)
\* have both been rejected
C7_Witness ==
  \E p \in Done("like"), q \in Done("like") :
    /\ call[p].senderId = call[p].receiverId /\ result[p].status = 400
    /\ <<call[q].receiverId, call[q].senderId>> \in blocks
    /\ result[q].message = "Cannot like this profile"

\* C8: with calls made one after another, every pass(sender, receiver) with
\* sender # receiver succeeds and leaves exactly one Pass edge
\* sender->receiver; pass(sender, sender) fails and creates no edge.
C8_PassIdempotent ==
  /\ \A e \in Pairs : passes[e] <= 1
  /\ \A p \in Done("pass") :
       IF call[p].senderId = call[p].receiverId
         THEN /\ result[p].status = 400
              /\ passes[<<call[p].senderId, call[p].receiverId>>] = 0
         ELSE /\ result[p].status = 200
              /\ passes[<<call[p].senderId, call[p].receiverId>>] = 1

\* the same pass made twice
C8_Witness ==
  \E p \in Done("pass"), q \in Done("pass") :
    /\ p # q /\ call[p] = call[q]
    /\ hist[q].passAtStart
    /\ result[p].status = 200 /\ result[q].status = 200

\* C9: whenever a SuperLike edge sender->receiver exists, a Like edge
\* sender->receiver exists.
C9_SuperLikeImpliesLike ==
  \A e \in Pairs : superLikes[e] > 0 => likes[e] > 0

\* C10 as stated: superLike is rejected, with no SuperLike or Like edge
\* created, in the cases where like is rejected: sender = receiver, the Like
\* edge sender->receiver already exists, or a block exists either way.
C10_SuperLikeValidatesAsLike ==
  \A p \in Done("superLike") :
    (\/ call[p].senderId = call[p].receiverId
     \/ hist[p].likeAtStart
     \/ BlockedEitherWay(call[p].senderId, call[p].receiverId))
      => /\ result[p].status = 400
         /\ ~hist[p].wroteSuper /\ ~hist[p].wroteLike

\* C10 amended: superLike is rejected (400), with no SuperLike or Like edge
\* created, exactly when sender = receiver, the SuperLike edge
\* sender->receiver exists when the handler looks it up, or a block exists
\* either way; an existing Like edge alone does not reject it.
C10_SuperLikeValidation ==
  \A p \in Done("superLike") :
    /\ result[p].status = 400 <=>
         \/ call[p].senderId = call[p].receiverId
         \/ hist[p].superSeen = "present"
         \/ BlockedEitherWay(call[p].senderId, call[p].receiverId)
    /\ result[p].status = 400 => ~hist[p].wroteSuper /\ ~hist[p].wroteLike

\* a superLike accepted over an existing Like edge, and a repeated superLike
\* rejected
C10_Witness ==
  \E p \in Done("superLike"), q \in Done("superLike") :
    /\ p # q /\ call[p] = call[q]
    /\ result[p].status = 200
    /\ hist[q].superSeen = "present" /\ result[q].status = 400

\* ---- properties of the compatibility cache and of the traits ------------------
CompatibilityDone == {t \in Tasks : task[t].pc = "done" /\ task[t].op = "compatibility"}

\* the four scores of a breakdown, without the userId the caller fills in
ScoresOf(score) == [score EXCEPT !.userId = 0]

\* the cache rows of the unordered pair {a, b}
RowsOfPair(rows, a, b) == {r \in rows : {r.user1Id, r.user2Id} = {a, b}}

RowsWithUser(rows, u) == {r \in rows : u \in {r.user1Id, r.user2Id}}

Completed(u) == profiles[u].personality_quiz_completed

\* C11: every cache entry expires 7 days after it was computed; a lookup
\* returns an entry only while now < expiresAt and otherwise goes on as
\* after a miss; a call that found the entry expired recomputes the scores
\* from the stored trait vectors and rewrites the entry with a new 7-day expiry.
C11_EntryServedOnlyBeforeExpiry ==
  /\ [](\A r \in compatibilityScores : r.expiresAt = r.calculatedAt + CacheTtlDays)
  /\ [][\A t \in Tasks :
          (task[t].pc = "compat_cached" /\ task'[t].pc # "compat_cached") =>
            LET rows == RowsOfPair(compatibilityScores, task[t].user1Id, task[t].user2Id) IN
              IF \E r \in rows : now < r.expiresAt
                THEN /\ task'[t].pc = "done"
                     /\ task'[t].outcome.status = 200
                     /\ \E r \in rows :
                          ScoresOf(task'[t].outcome.score) = ScoresOf(r.score)
                ELSE task'[t].pc = "compat_profiles"]_vars
  /\ [][\A t \in Tasks :
          (task[t].pc = "compat_cache" /\ task'[t].pc = "done"
           /\ task[t].lookup = "expired") =>
            LET fresh == calculateCompatibilityScores(
                           profiles[task[t].user1Id].traits,
                           profiles[task[t].user2Id].traits) IN
              /\ task'[t].outcome = CompatibilitySuccess(fresh)
              /\ \E r \in RowsOfPair(compatibilityScores',
                                     task[t].user1Id, task[t].user2Id) :
                   /\ r.score = fresh
                   /\ r.calculatedAt = now
                   /\ r.expiresAt = now + CacheTtlDays]_vars

\* a call found the entry of day 0 expired on day 7 and rewrote it
C11_Witness ==
  \E t \in CompatibilityDone :
    /\ task[t].lookup = "expired" /\ task[t].wrote
    /\ now >= CacheTtlDays
    /\ \E r \in RowsOfPair(compatibilityScores, task[t].user1Id, task[t].user2Id) :
         r.expiresAt > CacheTtlDays

\* C12: the cache holds at most one entry for an unordered pair {A,B} in
\* every reachable state, also after compatibility(A,B) and
\* compatibility(B,A) both missed and both wrote; and a lookup by either
\* order of the pair finds the entry and returns its scores.
C12_OneEntryPerUnorderedPair ==
  /\ [](\A a \in Users, b \in Users :
          Cardinality(RowsOfPair(compatibilityScores, a, b)) <= 1)
  /\ [][\A t \in Tasks :
          LET rows == RowsOfPair(compatibilityScores, task[t].user1Id, task[t].user2Id) IN
            (task[t].pc = "compat_cached" /\ task'[t].pc # "compat_cached"
             /\ rows # {}) =>
              /\ task'[t].lookup = "hit"
              /\ \E r \in rows : ScoresOf(task'[t].outcome.score) = r.score]_vars

\* compatibility(A,B) and compatibility(B,A) both missed and both wrote
C12_Witness ==
  \E t \in CompatibilityDone, q \in CompatibilityDone :
    /\ task[t].user1Id = task[q].user2Id /\ task[t].user2Id = task[q].user1Id
    /\ task[t].user1Id # task[t].user2Id
    /\ task[t].lookup = "miss" /\ task[q].lookup = "miss"
    /\ task[t].wrote /\ task[q].wrote
    /\ Cardinality(RowsOfPair(compatibilityScores, task[t].user1Id, task[t].user2Id)) = 1

C14_IncompleteQuestionnaireFails ==
  [][\A t \in Tasks :
       (task[t].op = "compatibility" /\ task[t].pc # "done" /\ task'[t].pc = "done"
        /\ (~Completed(task[t].user1Id) \/ ~Completed(task[t].user2Id))) =>
         /\ task'[t].outcome.status = 400
         /\ ~task'[t].wrote
         /\ compatibilityScores' = compatibilityScores]_vars

\* C15: a rejected cache lookup or a rejected cache upsert never fails the
\* compatibility call: with both questionnaires completed it returns the
\* freshly computed scores, and the cache rows stay as they were before
\* the rejected call.
C15_CacheFailureTolerated ==
  /\ [](\A t \in CompatibilityDone :
          (Completed(task[t].user1Id) /\ Completed(task[t].user2Id)) =>
            task[t].outcome.status = 200)
  /\ [][\A t \in Tasks :
          (task[t].pc = "compat_cache" /\ task'[t].pc = "done") =>
            /\ task'[t].outcome =
                 CompatibilitySuccess(calculateCompatibilityScores(
                   profiles[task[t].user1Id].traits, profiles[task[t].user2Id].traits))
            /\ task'[t].wrote \/ compatibilityScores' = compatibilityScores]_vars
  /\ [][\A t \in Tasks :
          (task[t].lookup # "failed" /\ task'[t].lookup = "failed") =>
            /\ task'[t].pc = "compat_profiles"
            /\ compatibilityScores' = compatibilityScores]_vars

\* both the lookup and the upsert of a call were rejected and it succeeded
C15_Witness ==
  \E t \in CompatibilityDone :
    /\ task[t].lookup = "failed" /\ ~task[t].wrote
    /\ task[t].outcome.status = 200
    /\ task[t].outcome.score.overallScore > 0

BulkDone == {t \in Tasks : task[t].pc = "done" /\ task[t].op = "bulk"}

\* the positions of the target list whose compatibility call succeeded
Succeeded(t) ==
  {i \in DOMAIN task[t].targets : task[t].subs[i].outcome.status = 200}

\* C16: a bulk call returns success whatever its targets' calls did, and its
\* list holds one item, with the target's id and scores, for each target
\* whose call succeeded and none for a target whose call failed.
C16_BulkKeepsExactlyTheSuccesses ==
  \A t \in BulkDone :
    LET items == task[t].outcome.items IN
      /\ task[t].outcome.status = 200
      /\ Len(items) = Cardinality(Succeeded(t))
      /\ \A u \in Users :
           Cardinality({j \in DOMAIN items : items[j].userId = u})
             = Cardinality({i \in Succeeded(t) : task[t].targets[i] = u})
      /\ \A j \in DOMAIN items :
           \E i \in Succeeded(t) :
             /\ items[j].userId = task[t].targets[i]
             /\ items[j].score = task[t].subs[i].outcome.score

\* a bulk call with a target that succeeded and a target that failed
C16_Witness ==
  \E t \in BulkDone :
    /\ \E i \in DOMAIN task[t].targets : task[t].subs[i].outcome.status = 200
    /\ \E i \in DOMAIN task[t].targets : task[t].subs[i].outcome.status = 400
    /\ Len(task[t].outcome.items) = 1

\* the stored answer rows an accepted submission leaves
RowsOfAnswers(answers) == {answers[i] : i \in DOMAIN answers}

\* C17: a submission that names a question the bank does not hold fails and
\* leaves the stored answers, the trait vector and the quiz-completed flag
\* as they were; a submission that succeeds leaves exactly the submitted
\* answers stored and the trait vector computed from them.
C17_SubmitAllOrNothing ==
  /\ [][\A t \in Tasks :
          (task[t].pc = "submit_tx" /\ task'[t].pc # "submit_tx") =>
            IF \E i \in DOMAIN task[t].answers :
                 task[t].answers[i].questionId \notin DOMAIN QuestionMap
              THEN /\ task'[t].pc = "done"
                   /\ task'[t].outcome.status = 400
                   /\ UNCHANGED <<profiles, personalityAnswers, compatibilityScores>>
              ELSE task'[t].pc = "done" =>
                     /\ task'[t].outcome.status # 200
                     /\ UNCHANGED <<profiles, personalityAnswers>>]_vars
  /\ [][\A t \in Tasks :
          (task[t].pc = "submit_clear" /\ task'[t].pc = "done") =>
            LET u == task[t].user1Id
                scores == calculatePersonalityScores(task[t].answers) IN
              /\ task'[t].outcome.status = 200
              /\ task'[t].outcome.traits = scores
              /\ personalityAnswers'[u] = RowsOfAnswers(task[t].answers)
              /\ profiles'[u] = [personality_quiz_completed |-> TRUE,
                                 traits |-> scores]]_vars
  /\ [](\A t \in Tasks :
          (task[t].pc = "done" /\ task[t].op = "submit"
           /\ task[t].outcome.status = 200) =>
            \A i \in DOMAIN task[t].answers :
              task[t].answers[i].questionId \in DOMAIN QuestionMap)

\* a rejected submission of a user whose earlier answers are still stored
C17_Witness ==
  \E t \in Tasks :
    /\ task[t].pc = "done" /\ task[t].op = "submit"
    /\ task[t].outcome.status = 400
    /\ personalityAnswers[task[t].user1Id] # {}
    /\ Completed(task[t].user1Id)

C19_CompatibilitySymmetric ==
  /\ calculateCompatibilityScores(profiles[1].traits, profiles[2].traits)
       = calculateCompatibilityScores(profiles[2].traits, profiles[1].traits)
  /\ \A t \in CompatibilityDone, q \in CompatibilityDone :
       ({task[t].user1Id, task[t].user2Id} = {task[q].user1Id, task[q].user2Id}
        /\ task[t].outcome.status = 200 /\ task[q].outcome.status = 200) =>
         ScoresOf(task[t].outcome.score) = ScoresOf(task[q].outcome.score)

\* (A,B) was computed and (B,A) served from the cache, for two vectors with
\* a deal-breaker and the extroversion bonus
C19_Witness ==
  \E t \in CompatibilityDone, q \in CompatibilityDone :
    /\ task[t].user1Id = task[q].user2Id /\ task[t].user2Id = task[q].user1Id
    /\ task[t].user1Id # task[t].user2Id
    /\ task[t].lookup = "miss" /\ task[t].wrote /\ task[q].lookup = "hit"
    /\ CriticalMismatch(profiles[1].traits, profiles[2].traits)
    /\ ExtroversionBonus(profiles[1].traits, profiles[2].traits)
    /\ profiles[1].traits["veganism_support"] < profiles[2].traits["veganism_support"]

\* ---- discovery ---------------------------------------------------------------
\* the discovery calls that returned a list
DiscoverDone == {t \in Tasks : /\ task[t].op = "discover"
                               /\ task[t].pc = "done"
                               /\ task[t].outcome.status = 200}

\* the users of the profiles a discovery call returned
Returned(t) ==
  {task[t].outcome.profiles[i].userId : i \in DOMAIN task[t].outcome.profiles}

\* C20: no profile a discovery call returns is the requester, a user the
\* requester liked or passed, a user blocked in either direction, or a user
\* the caller asked to leave out.
C20_DiscoverNeverReturnsExcluded ==
  \A t \in DiscoverDone :
    \A m \in Returned(t) :
      /\ m # task[t].user1Id
      /\ likes[<<task[t].user1Id, m>>] = 0
      /\ passes[<<task[t].user1Id, m>>] = 0
      /\ ~BlockedEitherWay(task[t].user1Id, m)
      /\ m \notin task[t].filters.excludeUserIds

\* the age in completed years of a user born on the given date
AgeOf(dateOfBirth) ==
  CurrentYear - getFullYear(dateOfBirth)
    - (IF dateOfBirth > DateOf(getFullYear(dateOfBirth), 2) THEN 1 ELSE 0)

\* C21: whatever ad-hoc age bounds a discovery call is given, the age of
\* every profile it returns lies within the stored range of the requester.
C21_AgeWithinStoredRange ==
  \A t \in DiscoverDone :
    \A m \in Returned(t) :
      /\ AgeOf(directory[m].dateOfBirth)
           >= directory[task[t].user1Id].preferences.minAge
      /\ AgeOf(directory[m].dateOfBirth)
           <= directory[task[t].user1Id].preferences.maxAge

\* the fetched candidates of a discovery call with their scores, in the
\* order of the fetch
ScoredCandidates(t) ==
  [i \in DOMAIN task[t].potentialMatches |->
     Scored(directory[task[t].user1Id], task[t].potentialMatches[i],
            task[t].subs[i])]

\* the fetched candidates the distance filter lets pass
PassedDistance(t) ==
  {i \in DOMAIN task[t].potentialMatches :
     WithinDistance(task[t].filters, directory[task[t].user1Id].preferences,
                    ScoredCandidates(t)[i].distance)}

\* C22: a discovery call returns at most limit profiles, in order of
\* non-increasing compatibility, and no fetched candidate that passed the
\* distance filter and was left out scores strictly higher than a returned one.
C22_ReturnsBestInOrder ==
  \A t \in DiscoverDone :
    LET returned == task[t].outcome.profiles IN
      /\ Len(returned) <= task[t].limit
      /\ \A i \in DOMAIN returned, j \in DOMAIN returned :
           i < j => returned[i].compatibility >= returned[j].compatibility
      /\ \A i \in PassedDistance(t) :
           task[t].potentialMatches[i] \notin Returned(t)
             => \A j \in DOMAIN returned :
                  ScoredCandidates(t)[i].compatibility <= returned[j].compatibility

\* a call with limit 1 fetched two candidates, the lower score first, and
\* returned the second
C22_Witness ==
  \E t \in DiscoverDone :
    /\ task[t].limit = 1
    /\ Len(task[t].potentialMatches) = 2
    /\ PassedDistance(t) = {1, 2}
    /\ ScoredCandidates(t)[1].compatibility < ScoredCandidates(t)[2].compatibility
    /\ Returned(t) = {task[t].potentialMatches[2]}

\* a profile that stores both coordinates
HasCoordinates(profile) == profile.latitude # Null /\ profile.longitude # Null

\* the maximum distance that applies to a call, in kilometres
ApplicableMaximum(t) ==
  IF task[t].filters.maxDistance # Null
    THEN task[t].filters.maxDistance
    ELSE directory[task[t].user1Id].preferences.maxDistance

\* C23: of the candidates a discovery call fetched, it leaves out exactly
\* those for which both parties have coordinates and the distance exceeds the
\* ad-hoc maximum, or the stored one when no ad-hoc maximum is given (the
\* limit of the call cuts nothing).
C23_RemovedExactlyWhenTooFar ==
  \A t \in DiscoverDone :
    \A i \in DOMAIN task[t].potentialMatches :
      LET currentUser == directory[task[t].user1Id]
          profile == directory[task[t].potentialMatches[i]] IN
        task[t].potentialMatches[i] \notin Returned(t)
          <=> /\ HasCoordinates(currentUser)
              /\ HasCoordinates(profile)
              /\ calculateDistance(currentUser.latitude, currentUser.longitude,
                                   profile.latitude, profile.longitude)
                   > 10 * ApplicableMaximum(t)

\* C24: no step of a discovery call changes the store: the profiles, the
\* like, pass and block rows, the matches, the conversations and the rows of
\* the compatibility cache stay as they are.
C24_DiscoverReadOnly ==
  [][(\E t \in Tasks : task'[t].op = "discover" /\ task'[t] # task[t])
       => UNCHANGED <<store, directory, scoringStore>>]_vars

\* C25: a match row, once stored, stays as it is through every step of a
\* like, pass, superLike, submit or reset call; and a step of a pass call
\* changes nothing of the store but the pass rows.
C25_MatchPersists ==
  [][/\ matches \subseteq matches'
     /\ \A p \in Requests :
          (call'[p].op = "pass" /\ pc'[p] # pc[p])
            => UNCHANGED <<likes, superLikes, blocks, matches, conversations,
                           directory, scoringStore>>]_vars

\* pass(1,2) added its row while the match of the pair was stored, and a
\* questionnaire call has completed; no like call made the match in this run
C25_Witness ==
  /\ MatchesOf(1, 2) # {}
  /\ \A q \in Requests : call[q].op # "like"
  /\ \E p \in Done("pass") :
       /\ call[p].senderId = 1
       /\ call[p].receiverId = 2
       /\ result[p] = PassSuccess("Profile passed successfully")
       /\ passes[<<1, 2>>] = 1
  /\ task[1].pc = "done"
  /\ task[1].op \in {"submit", "reset"}

\* ---- the calculator against the stored values --------------------------------
\* the difference of two stored values of a trait, with the reduction of the
\* extroversion difference by 0.1 when it lies within 0.1 of 0.3
StoredDifference(trait, a, b) ==
  LET difference == Abs(a - b) IN
    IF trait = "extroversion" /\ Abs(difference - 30) < 10
      THEN Max(0, difference - 10)
      ELSE difference

\* max(0, 1 - |a-b|) on the stored values
StoredSimilarity(trait, user1, user2) ==
  Max(0, 100 - StoredDifference(trait, user1[trait], user2[trait]))

RECURSIVE StoredSum(_, _, _)
StoredSum(traits, user1, user2) ==
  IF traits = {} THEN 0
  ELSE LET t == CHOOSE x \in traits : TRUE IN
         StoredSimilarity(t, user1, user2) + StoredSum(traits \ {t}, user1, user2)

\* the compatibility calls that computed their result
Computed == {t \in CompatibilityDone : /\ task[t].outcome.status = 200
                                        /\ task[t].lookup = "miss"}

\* C26: for every trait and every two stored values on the grid, the value 0
\* included, the similarity a compatibility call computes is max(0, 1 - |a-b|)
\* on the stored values (for extroversion after the 0.1 reduction), its
\* personality score is the average core similarity times 60 and its
\* lifestyle score the average lifestyle similarity times 40.
C26_SimilarityOnStoredValues ==
  \A t \in Computed :
    LET user1 == profiles[task[t].user1Id].traits
        user2 == profiles[task[t].user2Id].traits
        score == task[t].outcome.score IN
      /\ \A trait \in Traits :
           score.traitScores[trait] = StoredSimilarity(trait, user1, user2)
      /\ score.personalityScore = RoundDiv(3 * StoredSum(CoreTraits, user1, user2), 40)
      /\ score.lifestyleScore = RoundDiv(StoredSum(LifestyleTraits, user1, user2), 10)

\* ---- the trait scoring engine ----------------------------------------------------
\* the answers of an array that contribute a weight to a trait: the question
\* is in the bank, the option has a weight table, the table names the trait
Contributors(answers, trait) ==
  {i \in DOMAIN answers :
     /\ answers[i].questionId \in DOMAIN QuestionMap
     /\ OptionKey(answers[i].optionIndex) \in DOMAIN QuestionMap[answers[i].questionId]
     /\ trait \in DOMAIN QuestionMap[answers[i].questionId][OptionKey(answers[i].optionIndex)]}

RECURSIVE ContributedSum(_, _, _)
ContributedSum(answers, trait, indexes) ==
  IF indexes = {} THEN 0
  ELSE LET i == CHOOSE x \in indexes : TRUE IN
         QuestionMap[answers[i].questionId][OptionKey(answers[i].optionIndex)][trait]
           + ContributedSum(answers, trait, indexes \ {i})

\* value is the mean of the contributed weights rounded to 2 decimals: no
\* other multiple of 0.01 is nearer to the mean
MeanRounded(value, answers, trait) ==
  LET indexes == Contributors(answers, trait)
      n == Cardinality(indexes) IN
    2 * Abs(n * value - ContributedSum(answers, trait, indexes)) <= n

\* the submitAnswers calls that stored their answers
Submitted == {t \in Tasks : /\ task[t].op = "submit" /\ task[t].pc = "done"
                            /\ task[t].outcome.status = 200}

\* C28: for every answer array over the bank, whose weights lie in [0,1],
\* the scoring engine produces all 12 traits, each within [0,1]; a trait is
\* the mean of the weights the answered options contribute to it, rounded to
\* 2 decimals, and exactly 0.5 when no answer contributes (an answer whose
\* option index has no weight table contributes nothing).
C28_TraitsAreMeansOfWeights ==
  \A t \in Submitted :
    LET answers == task[t].answers
        traits == task[t].outcome.traits IN
      /\ profiles[task[t].user1Id].traits = traits
      /\ DOMAIN traits = Traits /\ Cardinality(Traits) = 12
      /\ \A trait \in Traits :
           /\ traits[trait] \in 0..100
           /\ Contributors(answers, trait) = {} => traits[trait] = 50
           /\ Contributors(answers, trait) # {} => MeanRounded(traits[trait], answers, trait)

\* a submission of three answers was stored: one trait is a mean of three
\* weights that needs rounding, one has a single weight, one has none
C28_Witness ==
  \E t \in Submitted :
    LET answers == task[t].answers IN
      /\ \E trait \in Traits :
           /\ Cardinality(Contributors(answers, trait)) = 3
           /\ ContributedSum(answers, trait, Contributors(answers, trait)) % 3 = 2
      /\ \E trait \in Traits : Cardinality(Contributors(answers, trait)) = 1
      /\ \E trait \in Traits : Contributors(answers, trait) = {}

\* |a-b| > 0.6 and max(a,b) > 0.8 on the stored values of a deal-breaker trait
StoredMismatch(user1, user2) ==
  \E trait \in DealBreakerTraits :
    /\ Abs(user1[trait] - user2[trait]) > 60
    /\ Max(user1[trait], user2[trait]) > 80

RECURSIVE SumScores(_, _)
SumScores(traitScores, traits) ==
  IF traits = {} THEN 0
  ELSE LET t == CHOOSE x \in traits : TRUE IN
         traitScores[t] + SumScores(traitScores, traits \ {t})

\* personality + lifestyle of a returned breakdown, in eightieths of a point:
\* 60 times the mean of the 8 core similarities plus 40 times the mean of the
\* 4 lifestyle similarities
BeforePenalty(score) ==
  2 * (3 * SumScores(score.traitScores, CoreTraits)
       + 4 * SumScores(score.traitScores, LifestyleTraits))

\* the two bonuses, in eightieths of a point
StoredBonuses(user1, user2) ==
  (IF Abs(Abs(user1["extroversion"] - user2["extroversion"]) - 30) < 10
     THEN 800 ELSE 0)
  + (IF user1["growth_mindset"] > 70 /\ user2["growth_mindset"] > 70
       THEN 800 ELSE 0)

\* C27: the critical-mismatch penalty applies exactly when the stored values
\* of veganism_support, environmental_consciousness or social_justice satisfy
\* |a-b| > 0.6 and max(a,b) > 0.8; then personality + lifestyle is halved
\* before the bonuses are added, and the overall score is the rounded total
\* clamped to 0..100.
C27_PenaltyOnStoredMismatch ==
  \A t \in Computed :
    LET user1 == profiles[task[t].user1Id].traits
        user2 == profiles[task[t].user2Id].traits
        score == task[t].outcome.score
        total == (IF StoredMismatch(user1, user2)
                    THEN BeforePenalty(score) \div 2
                    ELSE BeforePenalty(score))
                 + StoredBonuses(user1, user2) IN
      /\ score.overallScore \in 0..100
      /\ score.overallScore = RoundDiv(Min(8000, Max(0, total)), 80)

\* C29: under any interleaving of compatibility calls with submitAnswers and
\* resetPersonality calls, once every call has completed each unexpired
\* cache entry of a pair equals the calculator's result on the trait vectors
\* the two users have stored now: a call that read the old vectors leaves
\* nothing in the cache after the invalidation of the newer submission.
C29_CacheFollowsStoredTraits ==
  AllResting =>
    \A r \in compatibilityScores :
      Unexpired(r, now) =>
        ScoresOf(r.score) =
          ScoresOf(calculateCompatibilityScores(profiles[r.user1Id].traits,
                                                profiles[r.user2Id].traits))

\* ---- two opposite likes ----------------------------------------------------------
\* like(A,B) and like(B,A) have both returned, each after writing its edge
OppositeLikes(p, q) ==
  /\ p \in Done("like") /\ q \in Done("like") /\ p # q
  /\ call[p].senderId = call[q].receiverId
  /\ call[p].receiverId = call[q].senderId
  /\ call[p].senderId # call[p].receiverId

\* C30: no mutual like is lost. Whenever like(A,B) and like(B,A) have both
\* run to completion, at least one of them found the other's Like edge at
\* its reciprocal lookup, each having written its own edge before; so the
\* two never both return isMatch = false with no Match for the pair.
C30_NoMutualLikeLost ==
  \A p \in Requests, q \in Requests :
    OppositeLikes(p, q) =>
      /\ ~(/\ result[p] = LikeSuccess(FALSE, 0, 0)
           /\ result[q] = LikeSuccess(FALSE, 0, 0)
           /\ MatchesOf(call[p].senderId, call[p].receiverId) = {})
      /\ (hist[p].recip # "unchecked" /\ hist[q].recip # "unchecked") =>
           /\ hist[p].wroteLike /\ hist[q].wroteLike
           /\ mutualLike[p] \/ mutualLike[q]
           /\ MatchesOf(call[p].senderId, call[p].receiverId) # {}

\* both calls wrote their edge before either looked up the other's: both
\* found a mutual like, one created the Match and the other's create failed
C30_Witness ==
  \E p \in Requests, q \in Requests :
    /\ OppositeLikes(p, q)
    /\ mutualLike[p] /\ mutualLike[q]
    /\ hist[q].conflict
    /\ result[p] # LikeSuccess(FALSE, 0, 0)
    /\ MatchesOf(call[p].senderId, call[p].receiverId) # {}

====
